---- MODULE Spec2Model ----
(***************************************************************************)
(* Verification model of the option risk engine: the option pricers and    *)
(* their implied-volatility solver, the volatility-surface builder, the    *)
(* American dividend-yield fixed point, the spot-curve bootstrap, the      *)
(* yield-curve container, the piecewise-linear curve model, the            *)
(* Nelson-Siegel fit, the closed-form kernel, the ATM pair of a chain and  *)
(* the dividend-curve builder.                                             *)
(*                                                                         *)
(* Numbers.  A Python float is a record [k, v]: k = "num" with v the value *)
(* in fixed point (Scale units per 1.0), k = "nan" for NaN, k = "none" for *)
(* an omitted optional argument (None).  Prices, strikes, rates, vols and  *)
(* year fractions are all fixed-point integers.                            *)
(***************************************************************************)
EXTENDS Integers, Sequences, FiniteSets, TLC

VARIABLES
    pr_pc,      \* "none" before OptionPricer.make, then "made" or "failed"
    pricer,     \* the OptionPricer object under test
    pr_last,    \* the last call made on it: operation, arguments, outcome
    pr_ops,     \* number of calls made so far on the pricer
    vs_pc,      \* compute_volatility_surface: "chains", "opts", "done"
    vs_in,      \* its inputs: spot S, exercise style, the chains' expiries
    vs_ci,      \* number of chains taken from option_chains.chains
    vs_cur,     \* the chain being processed: T, r, q
    vs_slice,   \* the IVPoints collected for that chain
    vs_slices,  \* the IVSlices collected so far
    vs_quotes,  \* number of quotes read so far
    am_pc,      \* compute_am_dividend_yield: "loop", "test", "returned",
                \* "raised"
    am_in,      \* its arguments, and the kernel's prices at the solved vols
    am_q,       \* the current iterate q
    am_qnew,    \* q_new of the current pass
    am_am,      \* am_pricer
    am_eu,      \* eu_pricer
    am_ret,     \* the value returned
    am_it,      \* the locals of the last completed pass of the loop
    bs_pc,      \* bootstrap_spot_curve: "start", "loop", "done", "raised"
    bs_in,      \* its arguments: the par curve's first rate and date,
                \* max_tenor and step
    bs_fit,     \* fitted_par_curve: the Nelson-Siegel parameters
    bs_dt,      \* dt, in months
    bs_points,  \* spot_points
    bs_arg,     \* the argument of log in the last compute_spot_rate call
    bs_ret,     \* the outcome: the curve returned or the exception raised
    yc_pc,      \* YieldCurve(...): "new", "built", "raised"
    yc_in,      \* the constructor's arguments: points, evaluation_date
    yc_ret,     \* the outcome: the curve or the exception raised
    pl_pc,      \* PiecewiseLinear(...): "new", "built", "raised"
    pl_in,      \* the constructor's arguments: tenors, yields
    pl_ret,     \* the outcome: the model or the exception raised
    pl_val,     \* the last PiecewiseLinear.value call: dt and its outcome
    ns_pc,      \* Nelson-Siegel fit: "new", "fitted", "raised"
    ns_in,      \* its arguments: tenors, empirical_values
    ns_res,     \* what scipy.optimize.minimize returned: success, x
    ns_ret,     \* the outcome: the model or the exception raised
    ap_pc,      \* OptionChain.atm_pair: "new", "returned"
    ap_in,      \* the chain: the underlying's last close, the options
    ap_ret,     \* the value returned: None or (strike, call, put)
    dc_pc,      \* build_dividend_curve: "chains", "done", "raised", and
                \* "looping" inside a compute_am_dividend_yield call
    dc_in,      \* its arguments: the chains, exercise style, spot, the
                \* spot curve, min_year_fraction
    dc_ci,      \* number of chains taken from option_chains.chains
    dc_points,  \* points
    dc_log,     \* per chain taken: what was evaluated for it
    dc_ret,     \* the outcome: the curve or the exception raised
    kn_in,      \* BlackScholesMerton._price: S, K, r, q, sigma, T
    kn_call,    \* the outcome of _price(..., is_call=True), once called
    kn_put,     \* the outcome of _price(..., is_call=False), once called
    tr_pc,      \* CoxRossRubinstein._price: "start", "nodes", "end",
                \* "returned", "raised"
    tr_in,      \* its arguments S, K, is_call and u, exp((r-q)dt), df
    tr_ST,      \* the array ST
    tr_payoff,  \* the array payoff
    tr_i,       \* the level i of the backward loop
    tr_j,       \* the index j inside the level
    tr_ret,     \* the outcome: the price returned or the exception raised
    un_pc,      \* two units of work: the position of each in its program
    un_in,      \* the two units: kind, strike, option type, q, T
    un_heap,    \* the pricer objects allocated so far
    un_loc,     \* the locals of each unit: its pricers, r, the prices seen
    un_curve    \* the fitted spot curve both units are given

pr_vars == <<pr_pc, pricer, pr_last, pr_ops>>

vs_vars == <<vs_pc, vs_in, vs_ci, vs_cur, vs_slice, vs_slices, vs_quotes>>

am_vars == <<am_pc, am_in, am_q, am_qnew, am_am, am_eu, am_ret, am_it>>

bs_vars == <<bs_pc, bs_in, bs_fit, bs_dt, bs_points, bs_arg, bs_ret>>

yc_vars == <<yc_pc, yc_in, yc_ret>>

pl_vars == <<pl_pc, pl_in, pl_ret, pl_val>>

ns_vars == <<ns_pc, ns_in, ns_res, ns_ret>>

ap_vars == <<ap_pc, ap_in, ap_ret>>

dc_vars == <<dc_pc, dc_in, dc_ci, dc_points, dc_log, dc_ret>>

kn_vars == <<kn_in, kn_call, kn_put>>

tr_vars == <<tr_pc, tr_in, tr_ST, tr_payoff, tr_i, tr_j, tr_ret>>

un_vars == <<un_pc, un_in, un_heap, un_loc, un_curve>>

late_vars == <<tr_vars, un_vars>>

new_vars == <<ns_vars, ap_vars, dc_vars, kn_vars, late_vars>>

old_vars == <<pr_vars, vs_vars, am_vars, bs_vars, yc_vars, pl_vars>>

vars == <<pr_vars, vs_vars, am_vars, bs_vars, yc_vars, pl_vars, new_vars>>

\* What each component leaves alone.
not_pr == <<vs_vars, am_vars, bs_vars, yc_vars, pl_vars,
           new_vars>>

not_vs == <<pr_vars, am_vars, bs_vars, yc_vars, pl_vars,
           new_vars>>

not_am == <<pr_vars, vs_vars, bs_vars, yc_vars, pl_vars,
           new_vars>>

not_bs == <<pr_vars, vs_vars, am_vars, yc_vars, pl_vars,
           new_vars>>

not_yc == <<pr_vars, vs_vars, am_vars, bs_vars, pl_vars,
           new_vars>>

not_pl == <<pr_vars, vs_vars, am_vars, bs_vars, yc_vars,
           new_vars>>

not_ns == <<old_vars, ap_vars, dc_vars, kn_vars, late_vars>>

not_ap == <<old_vars, ns_vars, dc_vars, kn_vars, late_vars>>

not_dc == <<old_vars, ns_vars, ap_vars, kn_vars, late_vars>>

not_kn == <<old_vars, ns_vars, ap_vars, dc_vars, late_vars>>

not_tr == <<old_vars, ns_vars, ap_vars, dc_vars, kn_vars, un_vars>>

not_un == <<old_vars, ns_vars, ap_vars, dc_vars, kn_vars, tr_vars>>

-----------------------------------------------------------------------------
(* Floats *)

Scale == 10^3

Num(n) == [k |-> "num", v |-> n]

NaN == [k |-> "nan", v |-> 0]

None == [k |-> "none", v |-> 0]

IsNum(x) == x.k = "num"

IsNaN(x) == x.k = "nan"

\* Python truth value of an optional float: None, 0 and 0.0 are false, every
\* other float, NaN included, is true.
Truthy(x) == IsNaN(x) \/ (IsNum(x) /\ x.v # 0)

Abs(n) == IF n < 0 THEN -n ELSE n

Max(a, b) == IF a >= b THEN a ELSE b

Min(a, b) == IF a <= b THEN a ELSE b

\* x * y for floats: NaN when either operand is NaN.
FMulConst(num, den, x) == IF IsNum(x) THEN Num((num * x.v) \div den) ELSE NaN

-----------------------------------------------------------------------------
(* OptionPricer: modeling/option_pricer.py *)

Call == "Call"

Put == "Put"

OptionTypes == {Call, Put}

European == "European"

American == "American"

\* OptionPricer.__init__: S, K, r, T as given, sigma = q = 0.0.
NewPricer(style, S, K, r, T) ==
    [style |-> style, S |-> S, K |-> K, r |-> r, T |-> T,
     sigma |-> Num(0), q |-> Num(0)]

MakePricer_DefaultsToTree(style, S, K, r, T) ==
    IF style = European
    THEN [raised |-> "none", obj |-> NewPricer(European, S, K, r, T)]
    ELSE [raised |-> "none", obj |-> NewPricer(American, S, K, r, T)]

\* OptionPricer.make: the closed form for European, the tree for American,
\* ValueError for anything else.
MakePricer(style, S, K, r, T) ==
    IF style \in {European, American}
    THEN [raised |-> "none", obj |-> NewPricer(style, S, K, r, T)]
    ELSE [raised |-> "ValueError", obj |-> NewPricer("none", 0, 0, 0, 0)]

\* The class of a pricer object: make builds a BlackScholesMerton for the
\* European style and a CoxRossRubinstein for the American one.
PricerClass(p) ==
    IF p.style = European THEN "BlackScholesMerton"
    ELSE IF p.style = American THEN "CoxRossRubinstein"
    ELSE "none"

set_volatility(p, sigma) == [p EXCEPT !.sigma = sigma]

set_dividend_yield(p, q) == [p EXCEPT !.q = q]

\* max(S - K, 0.0) for a call, max(K - S, 0.0) for a put.
Intrinsic(S, K, option_type) ==
    IF option_type = Call THEN Max(S - K, 0) ELSE Max(K - S, 0)

\* BlackScholesMerton._price / CoxRossRubinstein._price: the numeric kernel is
\* kept as the term of its arguments; two results are equal exactly when the
\* kernel was called on the same model with the same arguments.
KernelPrice(style, S, K, r, q, sigma, T, option_type) ==
    [k |-> "model", style |-> style, S |-> S, K |-> K, r |-> r, q |-> q,
     sigma |-> sigma, T |-> T, call |-> (option_type = Call), v |-> 0]

IntrinsicPrice(p, option_type) ==
    [k |-> "intrinsic", style |-> p.style, S |-> p.S, K |-> p.K, r |-> p.r,
     q |-> Num(0), sigma |-> Num(0), T |-> p.T, call |-> (option_type = Call),
     v |-> Intrinsic(p.S, p.K, option_type)]

\* A kernel result is NaN as soon as sigma or q is NaN.
PriceIsNaN(pr) == pr.k = "model" /\ (IsNaN(pr.sigma) \/ IsNaN(pr.q))

\* The pricer after the two conditional setters that open price():
\* "if sigma: self.set_volatility(sigma)", "if q: self.set_dividend_yield(q)".
PriceSetters(p, sigma, q) ==
    LET p1 == IF Truthy(sigma) THEN set_volatility(p, sigma) ELSE p
    IN  IF Truthy(q) THEN set_dividend_yield(p1, q) ELSE p1

PriceCall_ExpiredOnly(p, option_type, sigma, q) ==
    LET p2 == PriceSetters(p, sigma, q)
    IN  [obj |-> p2,
         ret |-> IF p2.T < 0
                 THEN IntrinsicPrice(p2, option_type)
                 ELSE KernelPrice(p2.style, p2.S, p2.K, p2.r, p2.q, p2.sigma,
                                  p2.T, option_type)]

\* BlackScholesMerton.price / CoxRossRubinstein.price (same body in both):
\* the pricer after the call and the value returned.
PriceCall(p, option_type, sigma, q) ==
    LET p2 == PriceSetters(p, sigma, q)
    IN  [obj |-> p2,
         ret |-> IF p2.T <= 0
                 THEN IntrinsicPrice(p2, option_type)
                 ELSE KernelPrice(p2.style, p2.S, p2.K, p2.r, p2.q, p2.sigma,
                                  p2.T, option_type)]

\* What the numeric kernel raises when price() reaches it on the pricer p:
\* nothing when T <= 0 (the kernel is not called); ZeroDivisionError when
\* sigma is 0.0 ("/ (sigma * sqrt(T))" in the closed form, "/ (u - d)" with
\* u = d = 1 in the tree).  A NaN sigma gives a NaN price, not an exception.
KernelError(p) ==
    IF p.T <= 0 THEN "none"
    ELSE IF p.sigma = Num(0) THEN "ZeroDivisionError"
    ELSE "none"

\* getattr / setattr on the pricer, and "self.<attr> + d" for the bumped
\* value (sigma is a float record, the other fields are fixed-point integers).
GetAttr(p, attr) == p[attr]

SetAttr(p, attr, value) == [p EXCEPT ![attr] = value]

Bumped(attr, value, d) ==
    IF attr = "sigma"
    THEN (IF IsNum(value) THEN Num(value.v + d) ELSE value)
    ELSE value + d

\* self.price(option_type) inside a Greek: no sigma and no q are passed.
GreekPrice(p, option_type) ==
    LET c == PriceCall(p, option_type, None, None)
    IN  [obj |-> c.obj, raised |-> KernelError(c.obj)]

temp_attr_NoFinally(p, attr, d, option_type) ==
    LET original == GetAttr(p, attr)
        body     == GreekPrice(SetAttr(p, attr, Bumped(attr, original, d)),
                               option_type)
    IN  [obj    |-> IF body.raised = "none"
                    THEN SetAttr(body.obj, attr, original)
                    ELSE body.obj,
         raised |-> body.raised]

\* "with temp_attr(self, attr, self.<attr> + d): x = self.price(option_type)":
\* the original value is saved, the bumped one set, the price evaluated, and
\* the "finally" puts the original back whether or not the price raised.
temp_attr(p, attr, d, option_type) ==
    LET original == GetAttr(p, attr)
        body     == GreekPrice(SetAttr(p, attr, Bumped(attr, original, d)),
                               option_type)
    IN  [obj |-> SetAttr(body.obj, attr, original), raised |-> body.raised]

\* One more statement of a Greek: skipped when an earlier one raised, else
\* run on the pricer the earlier ones left; evals counts the prices obtained.
Started(p) == [obj |-> p, raised |-> "none", evals |-> 0]

AfterStep(w, step) ==
    IF w.raised # "none" THEN w
    ELSE [obj |-> step.obj, raised |-> step.raised,
          evals |-> IF step.raised = "none" THEN w.evals + 1 ELSE w.evals]

ThenWith(w, attr, d, option_type) ==
    AfterStep(w, temp_attr(w.obj, attr, d, option_type))

ThenPrice(w, option_type) == AfterStep(w, GreekPrice(w.obj, option_type))

\* OptionPricer.delta / gamma / vega / theta / rho: central (theta: one-sided)
\* finite differences of price() under temporarily bumped fields.
delta(p, option_type, h) ==
    ThenWith(ThenWith(Started(p), "S", h, option_type), "S", -h, option_type)

gamma(p, option_type, h) ==
    ThenWith(ThenWith(ThenWith(Started(p), "S", h, option_type),
                      "S", 0, option_type),
             "S", -h, option_type)

vega(p, option_type, h) ==
    ThenWith(ThenWith(Started(p), "sigma", h, option_type),
             "sigma", -h, option_type)

theta(p, option_type, h) ==
    ThenPrice(ThenWith(Started(p), "T", -h, option_type), option_type)

rho(p, option_type, h) ==
    ThenWith(ThenWith(Started(p), "r", h, option_type), "r", -h, option_type)

Greeks == {"delta", "gamma", "vega", "theta", "rho"}

Greek(name, p, option_type, h) ==
    CASE name = "delta" -> delta(p, option_type, h)
      [] name = "gamma" -> gamma(p, option_type, h)
      [] name = "vega"  -> vega(p, option_type, h)
      [] name = "theta" -> theta(p, option_type, h)
      [] name = "rho"   -> rho(p, option_type, h)

\* scipy.optimize.brentq(f, a, b, maxiter): what the solver does with the
\* sign of f at both ends (fa, fb), the number of iterations the function
\* needs (need) and its root (x).  A NaN function value and two ends of the
\* same sign raise ValueError; running out of iterations raises RuntimeError.
MaxIter == 20

Brentq(a, b, fa, fb, need, x) ==
    IF fa = "nan" \/ fb = "nan" THEN [raised |-> "ValueError", root |-> NaN]
    ELSE IF fa = "zero" THEN [raised |-> "none", root |-> a]
    ELSE IF fb = "zero" THEN [raised |-> "none", root |-> b]
    ELSE IF fa = fb THEN [raised |-> "ValueError", root |-> NaN]
    ELSE IF need > MaxIter THEN [raised |-> "RuntimeError", root |-> NaN]
    ELSE [raised |-> "none", root |-> x]

\* a, b = 0.01, 2.0; "if initial_guess: a, b = 0.5 * guess, 1.5 * guess".
IvLo == Scale \div 100

IvHi == 2 * Scale

Bracket(initial_guess) ==
    IF Truthy(initial_guess)
    THEN [a |-> FMulConst(1, 2, initial_guess),
          b |-> FMulConst(3, 2, initial_guess)]
    ELSE [a |-> Num(IvLo), b |-> Num(IvHi)]

CatchSolver_ValueErrorOnly(res) ==
    IF res.raised = "ValueError"
    THEN [raised |-> "none", iv |-> NaN]
    ELSE [raised |-> res.raised, iv |-> res.root]

\* The try/except around brentq: ValueError and RuntimeError both become the
\* NaN sentinel, anything else propagates.
CatchSolver(res) ==
    IF res.raised \in {"ValueError", "RuntimeError"}
    THEN [raised |-> "none", iv |-> NaN]
    ELSE [raised |-> res.raised, iv |-> res.root]

SignOf(n) == IF n < 0 THEN "neg" ELSE IF n = 0 THEN "zero" ELSE "pos"

FSigns == {"neg", "zero", "pos"}

\* What f(sigma) = self.price(option_type) - market_price can be at sigma for
\* the pricer p (q already set): NaN when the kernel gets a NaN, the sign of
\* intrinsic - market_price when T <= 0, any sign otherwise.
FValues(p, option_type, market_price, sigma) ==
    IF p.T <= 0 THEN {SignOf(Intrinsic(p.S, p.K, option_type) - market_price)}
    ELSE IF IsNaN(sigma) \/ IsNaN(p.q) THEN {"nan"}
    ELSE FSigns

\* The volatilities inside the bracket [a, b] on the model's grid.
SigmaGrid == {IvLo, Scale \div 5, IvHi}

Inside(br) ==
    IF IsNum(br.a) /\ IsNum(br.b)
    THEN {br.a, br.b} \cup
         {Num(s) : s \in {g \in SigmaGrid : Min(br.a.v, br.b.v) <= g
                                            /\ g <= Max(br.a.v, br.b.v)}}
    ELSE {br.a, br.b}

\* The solver's inputs that the kernel decides: the signs of f at both ends,
\* the iterations needed and the root (both only read when the ends bracket
\* a root), and the last volatility f was called with.
Brackets(fa, fb) == fa \in {"neg", "pos"} /\ fb \in {"neg", "pos"} /\ fa # fb

Oracles(p, option_type, market_price, br) ==
    {[fa |-> fa, fb |-> fb, need |-> need, x |-> x, last |-> last] :
        fa \in FValues(p, option_type, market_price, br.a),
        fb \in FValues(p, option_type, market_price, br.b),
        need \in {1, MaxIter + 1},
        x \in Inside(br), last \in {br.a, br.b}}

OraclesUsed(p, option_type, market_price, br) ==
    {o \in Oracles(p, option_type, market_price, br) :
        \/ Brackets(o.fa, o.fb) /\ (o.need <= MaxIter \/ o.x = br.a)
        \/ ~Brackets(o.fa, o.fb) /\ o.need = 1 /\ o.x = br.a}

\* OptionPricer.implied_volatility: the pricer after the call (q set, sigma
\* left at the last value f tried), the bracket searched, and the result.
ImpliedVolatility(p, option_type, market_price, q, initial_guess, orc) ==
    LET p1  == set_dividend_yield(p, q)
        br  == Bracket(initial_guess)
        raw == Brentq(br.a, br.b, orc.fa, orc.fb, orc.need, orc.x)
        res == CatchSolver(raw)
    IN  [obj |-> set_volatility(p1, orc.last), bracket |-> br,
         solver |-> raw.raised, raised |-> res.raised, iv |-> res.iv]

\* The solves the two builders are checked on: a root strictly inside the
\* bracket, a bracket without a sign change, a NaN function value, a solve
\* out of iterations.
SolveCases(p, option_type, market_price, br) ==
    {o \in OraclesUsed(p, option_type, market_price, br) :
        /\ o.fa # "zero" /\ o.fb # "zero" /\ o.last = br.b
        /\ (Brackets(o.fa, o.fb) /\ o.need <= MaxIter) => o.x = Num(Scale \div 5)
        /\ o.fa \in {"neg", "nan"}}

-----------------------------------------------------------------------------
(* A pricer and the calls made on it *)

MaxOps == 2

Styles == {European, American, "Bermudan"}

Spots == {100}

Strikes == {90, 110}

Rates == {Scale \div 20}

Maturities == {-1, 0, Scale}

\* sigma and q as a caller may pass them to price().
SigmaArgs == {None, Num(0), Num(Scale \div 5), NaN}

QArgs == {None, Num(0), Num((3 * Scale) \div 100)}

MarketPrices == {10}

Guesses == {None, Num(0), Num(Scale \div 5), NaN}

\* The bump h of a Greek: the smallest step of the grid and one as large as
\* the volatility a caller sets (the down-bump of vega then prices at 0).
GreekSteps == {1, Scale \div 5}

NoPrice == [k |-> "none", style |-> "none", S |-> 0, K |-> 0, r |-> 0,
            q |-> Num(0), sigma |-> Num(0), T |-> 0, call |-> FALSE, v |-> 0]

NoBracket == [a |-> Num(0), b |-> Num(0)]

NoCall ==
    [op |-> "none", style |-> "none", option_type |-> Call, sigma |-> None,
     q |-> None,
     market_price |-> 0, guess |-> None, ret |-> NoPrice, iv |-> NaN,
     solver |-> "none", raised |-> "none", bracket |-> NoBracket,
     before |-> NewPricer("none", 0, 0, 0, 0), h |-> 0, evals |-> 0]

VsIdle ==
    /\ vs_pc = "idle"
    /\ vs_in = [S |-> 0, style |-> "none", days |-> <<>>]
    /\ vs_ci = 0
    /\ vs_cur = [T |-> 0, r |-> 0, q |-> Num(0)]
    /\ vs_slice = <<>>
    /\ vs_slices = <<>>
    /\ vs_quotes = 0

NoPass ==
    [made |-> FALSE, q |-> Num(0), guess_vol |-> NaN, iv_call |-> NaN,
     iv_put |-> NaN, eu_call_price |-> NoPrice, eu_put_price |-> NoPrice]

AmIdle ==
    /\ am_pc = "idle"
    /\ am_in = [call_price |-> 0, put_price |-> 0, spot |-> 0, strike |-> 0,
                T |-> 0, r |-> 0, eu_call |-> 0, eu_put |-> 0]
    /\ am_q = Num(0)
    /\ am_qnew = Num(0)
    /\ am_am = NewPricer("none", 0, 0, 0, 0)
    /\ am_eu = NewPricer("none", 0, 0, 0, 0)
    /\ am_ret = Num(0)
    /\ am_it = NoPass

\* An exception: its type and message; NoExc when nothing was raised.
Exc(type, msg) == [type |-> type, msg |-> msg]

NoExc == Exc("none", "")

NoCurve == [points |-> <<>>, yield_type |-> "none", evaluation_date |-> "none"]

BsIdle ==
    /\ bs_pc = "idle"
    /\ bs_in = [r0 |-> 0, date |-> "none", max_tenor |-> 0, step |-> 0]
    /\ bs_fit = [b0 |-> 0, b1 |-> 0, b2 |-> 0, tau |-> 0]
    /\ bs_dt = 0
    /\ bs_points = <<>>
    /\ bs_arg = 0
    /\ bs_ret = [raised |-> NoExc, curve |-> NoCurve]

YcIdle ==
    /\ yc_pc = "idle"
    /\ yc_in = [points |-> <<>>, evaluation_date |-> "none"]
    /\ yc_ret = [raised |-> NoExc, curve |-> NoCurve]

NoValue == [called |-> FALSE, dt |-> 0, raised |-> NoExc, value |-> 0]

PlIdle ==
    /\ pl_pc = "idle"
    /\ pl_in = [tenors |-> <<>>, yields |-> <<>>]
    /\ pl_ret = [raised |-> NoExc, tenors |-> <<>>, yields |-> <<>>]
    /\ pl_val = NoValue

NoModel ==
    [made |-> FALSE, b0 |-> 0, b1 |-> 0, b2 |-> 0, tau |-> 0, rmse |-> 0]

NsIdle ==
    /\ ns_pc = "idle"
    /\ ns_in = [tenors |-> <<>>, empirical_values |-> <<>>]
    /\ ns_res = [success |-> FALSE,
                 x |-> [b0 |-> 0, b1 |-> 0, b2 |-> 0, tau |-> 0]]
    /\ ns_ret = [raised |-> NoExc, model |-> NoModel]

ApIdle ==
    /\ ap_pc = "idle"
    /\ ap_in = [spot |-> 0, options |-> <<>>]
    /\ ap_ret = [found |-> FALSE, strike |-> 0, call |-> 0, put |-> 0,
                 closest |-> 0]

DcIdle ==
    /\ dc_pc = "idle"
    /\ dc_in = [style |-> "none", spot |-> 0, chains |-> <<>>,
                min_year_fraction |-> 0]
    /\ dc_ci = 0
    /\ dc_points = <<>>
    /\ dc_log = <<>>
    /\ dc_ret = [raised |-> NoExc, curve |-> NoCurve]

NoResult == [called |-> FALSE, raised |-> NoExc, value |-> 0]

KnIdle ==
    /\ kn_in = [S |-> 0, K |-> 0, r |-> 0, q |-> 0, sigma |-> 0, T |-> 0]
    /\ kn_call = NoResult
    /\ kn_put = NoResult

\* A rational number n / d in lowest terms, d > 0.
Rat(n, d) == [n |-> n, d |-> d]

TrIdle ==
    /\ tr_pc = "idle"
    /\ tr_in = [S |-> 0, K |-> 0, is_call |-> FALSE, u |-> Rat(1, 1),
                growth |-> Rat(1, 1), df |-> Rat(1, 1)]
    /\ tr_ST = <<>>
    /\ tr_payoff = <<>>
    /\ tr_i = 0
    /\ tr_j = 0
    /\ tr_ret = [raised |-> NoExc, value |-> Rat(0, 1)]

UnIdle ==
    /\ un_pc = <<>>
    /\ un_in = <<>>
    /\ un_heap = <<>>
    /\ un_loc = <<>>
    /\ un_curve = <<>>

LateIdle == TrIdle /\ UnIdle

NewIdle == NsIdle /\ ApIdle /\ DcIdle /\ KnIdle /\ LateIdle

PrIdle ==
    /\ pr_pc = "idle"
    /\ pricer = NewPricer("none", 0, 0, 0, 0)
    /\ pr_last = NoCall
    /\ pr_ops = 0

PrInit ==
    /\ pr_pc = "none"
    /\ pricer = NewPricer("none", 0, 0, 0, 0)
    /\ pr_last = NoCall
    /\ pr_ops = 0
    /\ VsIdle /\ AmIdle /\ BsIdle /\ YcIdle /\ PlIdle
    /\ NewIdle

\* pricer = OptionPricer.make(style, S, K, r, T)
PrMake ==
    /\ pr_pc = "none"
    /\ \E style \in Styles, S \in Spots, K \in Strikes, r \in Rates,
          T \in Maturities :
          LET m == MakePricer(style, S, K, r, T)
          IN  /\ pr_pc' = IF m.raised = "none" THEN "made" ELSE "failed"
              /\ pricer' = m.obj
              /\ pr_last' = [NoCall EXCEPT !.op = "make", !.style = style,
                                 !.raised = m.raised]
    /\ UNCHANGED <<pr_ops, not_pr>>

\* pricer.price(option_type, sigma, q)
PrPrice ==
    /\ pr_pc = "made"
    /\ pr_ops < MaxOps
    /\ \E option_type \in OptionTypes, sigma \in SigmaArgs, q \in QArgs :
          LET c == PriceCall(pricer, option_type, sigma, q)
          IN  /\ pricer' = c.obj
              /\ pr_last' = [NoCall EXCEPT !.op = "price",
                                 !.option_type = option_type, !.sigma = sigma,
                                 !.q = q, !.ret = c.ret]
    /\ pr_ops' = pr_ops + 1
    /\ UNCHANGED <<pr_pc, not_pr>>

\* pricer.implied_volatility(option_type, market_price, q, initial_guess)
PrImpliedVolatility ==
    /\ pr_pc = "made"
    /\ pr_ops < MaxOps
    /\ \E option_type \in OptionTypes, mp \in MarketPrices,
          q \in QArgs \ {None}, guess \in Guesses :
          \E orc \in OraclesUsed(set_dividend_yield(pricer, q), option_type, mp,
                                 Bracket(guess)) :
             LET c == ImpliedVolatility(pricer, option_type, mp, q, guess, orc)
             IN  /\ pricer' = c.obj
                 /\ pr_last' = [NoCall EXCEPT !.op = "implied_volatility",
                                    !.option_type = option_type, !.q = q,
                                    !.market_price = mp, !.guess = guess,
                                    !.iv = c.iv, !.raised = c.raised,
                                    !.solver = c.solver,
                                    !.bracket = c.bracket]
    /\ pr_ops' = pr_ops + 1
    /\ UNCHANGED <<pr_pc, not_pr>>

\* pricer.delta / gamma / vega / theta / rho (option_type, h)
PrGreek ==
    /\ pr_pc = "made"
    /\ pr_ops < MaxOps
    /\ \E name \in Greeks, option_type \in OptionTypes, h \in GreekSteps :
          LET g == Greek(name, pricer, option_type, h)
          IN  /\ pricer' = g.obj
              /\ pr_last' = [NoCall EXCEPT !.op = name,
                                 !.option_type = option_type, !.h = h,
                                 !.before = pricer, !.raised = g.raised,
                                 !.evals = g.evals]
    /\ pr_ops' = pr_ops + 1
    /\ UNCHANGED <<pr_pc, not_pr>>

PrNext == PrMake \/ PrPrice \/ PrImpliedVolatility \/ PrGreek

SpecPricer == PrInit /\ [][PrNext]_vars

\* C4: implied_volatility does not raise when the root-finder fails to
\* bracket a root (ValueError) or runs out of iterations (RuntimeError): it
\* returns NaN as an ordinary value in both cases.
C4_SolverFailureReturnsNaN ==
    (pr_last.op = "implied_volatility"
        /\ pr_last.solver \in {"ValueError", "RuntimeError"})
    => (pr_last.raised = "none" /\ IsNaN(pr_last.iv))

C4_Witness ==
    /\ pr_last.op = "implied_volatility"
    /\ pr_last.solver = "RuntimeError"
    /\ pr_last.raised = "none"
    /\ IsNaN(pr_last.iv)

\* C5: price(option_type, sigma, q) with both sigma and q supplied returns
\* the model price for exactly that sigma and that q, whatever was called on
\* the pricer before.
C5_PriceUsesSuppliedInputs ==
    (pr_last.op = "price" /\ pr_last.sigma # None /\ pr_last.q # None
        /\ pricer.T > 0)
    => pr_last.ret = KernelPrice(pricer.style, pricer.S, pricer.K, pricer.r,
                                 pr_last.q, pr_last.sigma, pricer.T,
                                 pr_last.option_type)

\* C14: on either pricer, price with T <= 0 returns the intrinsic value,
\* max(S - K, 0) for a call and max(K - S, 0) for a put, whatever sigma and
\* q were passed or set before, and the closed form or the tree is not
\* evaluated.
C14_ExpiredIsIntrinsic ==
    (pr_last.op = "price" /\ pricer.T <= 0) =>
        /\ pr_last.ret.k = "intrinsic"
        /\ pr_last.ret.k # "model"
        /\ pr_last.option_type = Call =>
               pr_last.ret.v = Max(pricer.S - pricer.K, 0)
        /\ pr_last.option_type = Put =>
               pr_last.ret.v = Max(pricer.K - pricer.S, 0)

C14_Witness ==
    /\ pr_last.op = "price"
    /\ pricer.T = 0
    /\ PricerClass(pricer) = "CoxRossRubinstein"
    /\ pr_last.option_type = Put
    /\ IsNaN(pr_last.sigma)
    /\ pr_last.q = Num((3 * Scale) \div 100)
    /\ pricer.K = 110
    /\ pr_last.ret.k = "intrinsic"
    /\ pr_last.ret.v = 10

\* C13: make returns a BlackScholesMerton pricer for the European style and
\* a CoxRossRubinstein pricer for the American style; for any other style it
\* raises the configuration error and no pricer is returned.
C13_MakeByStyle ==
    pr_last.op = "make" =>
        /\ pr_last.style = European =>
               /\ pr_pc = "made" /\ pr_last.raised = "none"
               /\ PricerClass(pricer) = "BlackScholesMerton"
        /\ pr_last.style = American =>
               /\ pr_pc = "made" /\ pr_last.raised = "none"
               /\ PricerClass(pricer) = "CoxRossRubinstein"
        /\ pr_last.style \notin {European, American} =>
               /\ pr_pc = "failed" /\ pr_last.raised = "ValueError"
               /\ PricerClass(pricer) = "none"

C13_Witness ==
    /\ pr_last.op = "make"
    /\ pr_last.style = "Bermudan"
    /\ pr_pc = "failed"
    /\ pr_last.raised = "ValueError"

\* C21: each Greek (delta, gamma, vega, theta, rho) leaves S, K, r, T, sigma
\* and q of the pricer as they were before the call, when it returns and
\* when a price evaluation inside it raises.
C21_GreeksRestoreFields ==
    pr_last.op \in Greeks =>
        /\ pricer.S = pr_last.before.S /\ pricer.K = pr_last.before.K
        /\ pricer.r = pr_last.before.r /\ pricer.T = pr_last.before.T
        /\ pricer.sigma = pr_last.before.sigma
        /\ pricer.q = pr_last.before.q

\* vega with h equal to the volatility set before: the up-bump prices, the
\* down-bump prices at sigma = 0 and raises, and sigma is back.
C21_Witness ==
    /\ pr_last.op = "vega"
    /\ pr_last.raised = "ZeroDivisionError"
    /\ pr_last.evals = 1
    /\ pr_last.h = Scale \div 5
    /\ pricer.sigma = Num(Scale \div 5)
    /\ pricer = pr_last.before

\* C22: implied_volatility searches [0.01, 2.0] when no initial guess is
\* supplied, and [0.5 * guess, 1.5 * guess] whenever a guess is supplied,
\* whatever its value.
C22_BracketFollowsGuess ==
    pr_last.op = "implied_volatility" =>
        /\ pr_last.guess = None =>
               pr_last.bracket = [a |-> Num(IvLo), b |-> Num(IvHi)]
        /\ pr_last.guess # None =>
               pr_last.bracket = [a |-> FMulConst(1, 2, pr_last.guess),
                                  b |-> FMulConst(3, 2, pr_last.guess)]

-----------------------------------------------------------------------------
(* Volatility surface: risk_factor/volatility_surface.py *)

\* exp(x) and log(y) in fixed point: the series 1 + x + x^2/2 + x^3/6 and
\* 2 (z + z^3/3) with z = (y - 1)/(y + 1).
ExpFx(x) ==
    Scale + x + (x * x) \div (2 * Scale) + (x * x * x) \div (6 * Scale * Scale)

LogFx(y) ==
    LET z == ((y - Scale) * Scale) \div (y + Scale)
    IN  2 * z + (2 * z * z * z) \div (3 * Scale * Scale)

\* T = (chain.expiry - as_of).days / 252.0
TradingDays == 252

YearFraction(days) == (days * Scale) \div TradingDays

\* log(S / K)
compute_moneyness(S, K) == LogFx((S * Scale) \div K)

\* F = S * exp((r - q) * T); log(F / K)
compute_forward_moneyness(S, K, r, q, T) ==
    LET F == (S * ExpFx(((r - q) * T) \div Scale)) \div Scale
    IN  LogFx((F * Scale) \div K)

\* The quote filters: volume < 10, last_price < 0.1, or last traded before
\* as_of - 1 day (age = as_of - last_trade_date in days).  The volume is a
\* float of the provider's table, NaN where the provider has none, and
\* "NaN < 10" is false.
MinVolume == 10

MinLastPrice == 10

MaxAge == 1

FLess(x, n) == IsNum(x) /\ x.v < n

QuoteFiltered(opt) ==
    \/ FLess(opt.volume, MinVolume)
    \/ opt.last_price < MinLastPrice
    \/ opt.age > MaxAge

IsITM_Swapped(option_type, fwd_moneyness) ==
    \/ option_type = Call /\ fwd_moneyness < 0
    \/ option_type = Put /\ fwd_moneyness > 0

\* "don't calibrate on ITM options": a call with fwd_moneyness > 0.0 and a
\* put with fwd_moneyness < 0.0 are passed over.
IsITM(option_type, fwd_moneyness) ==
    \/ option_type = Call /\ fwd_moneyness > 0
    \/ option_type = Put /\ fwd_moneyness < 0

\* One pass of the loop over chain.options: the slice after the option opt,
\* iv being what pricer.implied_volatility returned for it.  A point also
\* records the quote it was made from and the r and q of its chain.
ProcessOption(slice, S, cur, opt, iv) ==
    IF QuoteFiltered(opt) THEN slice
    ELSE LET K   == opt.strike
             m   == compute_moneyness(S, K)
             fwd == compute_forward_moneyness(S, K, cur.r, cur.q.v, cur.T)
         IN  IF IsITM(opt.option_type, fwd) THEN slice
             ELSE Append(slice,
                         [year_to_maturity |-> cur.T, strike |-> K,
                          moneyness |-> m, forward_moneyness |-> fwd,
                          value |-> iv, src |-> opt, r |-> cur.r,
                          q |-> cur.q.v])

\* Prices are in cents: spot 100.00, last prices 0.09 to 5.00.
MaxQuotes == 2

VsSpots == {10000}

ExpirySets == {<<0, 126>>, <<126, -5>>, <<63, 126>>, <<126, 63>>}

SpotCurveValues == {Scale \div 50, (8 * Scale) \div 100}

DividendCurveValues == {Scale \div 20}

Quotes ==
    {[option_type |-> ty, strike |-> k, volume |-> Num(50),
      last_price |-> 250, age |-> 0] :
        ty \in OptionTypes, k \in {9000, 10000, 11000}}
    \cup {[option_type |-> Call, strike |-> 11000, volume |-> Num(9),
           last_price |-> 250, age |-> 0],
          [option_type |-> Call, strike |-> 11000, volume |-> NaN,
           last_price |-> 250, age |-> 0],
          [option_type |-> Put, strike |-> 9000, volume |-> Num(10),
           last_price |-> 9, age |-> 1],
          [option_type |-> Put, strike |-> 9000, volume |-> Num(10),
           last_price |-> 10, age |-> 2],
          [option_type |-> Put, strike |-> 9000, volume |-> Num(10),
           last_price |-> 10, age |-> 1]}

VsInit ==
    /\ vs_pc = "chains"
    /\ vs_in \in {[S |-> S, style |-> st, days |-> d] :
                     S \in VsSpots, st \in {European, American},
                     d \in ExpirySets}
    /\ vs_ci = 0
    /\ vs_cur = [T |-> 0, r |-> 0, q |-> Num(0)]
    /\ vs_slice = <<>>
    /\ vs_slices = <<>>
    /\ vs_quotes = 0
    /\ PrIdle /\ AmIdle /\ BsIdle /\ YcIdle /\ PlIdle
    /\ NewIdle

\* "for chain in option_chains.chains": the next chain; passed over when
\* T <= 0.0, else r and q are read from the two fitted curves.
VsChain ==
    /\ vs_pc = "chains"
    /\ vs_ci < Len(vs_in.days)
    /\ vs_ci' = vs_ci + 1
    /\ LET T == YearFraction(vs_in.days[vs_ci + 1])
       IN  IF T <= 0
           THEN UNCHANGED <<vs_pc, vs_cur, vs_slice>>
           ELSE /\ vs_pc' = "opts"
                /\ \E r \in SpotCurveValues, q \in DividendCurveValues :
                      vs_cur' = [T |-> T, r |-> r, q |-> Num(q)]
                /\ vs_slice' = <<>>
    /\ UNCHANGED <<vs_in, vs_slices, vs_quotes, not_vs>>

\* "for opt in chain.options": one option of the chain.  A quote that passes
\* the filters gets its own pricer and one implied-volatility solve.
VsOption ==
    /\ vs_pc = "opts"
    /\ vs_quotes < MaxQuotes
    /\ vs_quotes' = vs_quotes + 1
    /\ \E opt \in Quotes :
          LET m == MakePricer(vs_in.style, vs_in.S, opt.strike, vs_cur.r,
                              vs_cur.T)
              br == Bracket(None)
          IN  \E orc \in SolveCases(set_dividend_yield(m.obj, vs_cur.q),
                                    opt.option_type, opt.last_price, br) :
                 vs_slice' =
                     ProcessOption(vs_slice, vs_in.S, vs_cur, opt,
                         ImpliedVolatility(m.obj, opt.option_type,
                             opt.last_price, vs_cur.q, None, orc).iv)
    /\ UNCHANGED <<vs_pc, vs_in, vs_ci, vs_cur, vs_slices, not_vs>>

AppendSlice_NonEmpty(slices, T, slice) ==
    IF slice = <<>> THEN slices
    ELSE Append(slices, [year_to_maturity |-> T, points |-> slice])

\* slices.append(IVSlice(T, slice))
AppendSlice(slices, T, slice) ==
    Append(slices, [year_to_maturity |-> T, points |-> slice])

\* slices.append(IVSlice(T, slice)) once the chain's options are exhausted.
VsEndChain ==
    /\ vs_pc = "opts"
    /\ vs_slices' = AppendSlice(vs_slices, vs_cur.T, vs_slice)
    /\ vs_pc' = "chains"
    /\ vs_slice' = <<>>
    /\ UNCHANGED <<vs_in, vs_ci, vs_cur, vs_quotes, not_vs>>

\* return IVSurface(slices)
VsReturn ==
    /\ vs_pc = "chains"
    /\ vs_ci = Len(vs_in.days)
    /\ vs_pc' = "done"
    /\ UNCHANGED <<vs_in, vs_ci, vs_cur, vs_slice, vs_slices, vs_quotes,
                   not_vs>>

VsNext == VsChain \/ VsOption \/ VsEndChain \/ VsReturn

SpecVol == VsInit /\ [][VsNext]_vars

\* The points of the surface, as a set.
SurfacePoints ==
    UNION {{vs_slices[i].points[j] : j \in 1..Len(vs_slices[i].points)} :
              i \in 1..Len(vs_slices)}

\* C1: the returned surface holds no point made from a call whose forward
\* log-moneyness ln(F/K), F = S exp((r - q) T), is positive, and none made
\* from a put whose forward log-moneyness is negative.
C1_NoITMPointRetained ==
    vs_pc = "done" =>
        \A p \in SurfacePoints :
            LET fwd == compute_forward_moneyness(vs_in.S, p.src.strike, p.r,
                                                 p.q, p.year_to_maturity)
            IN  /\ p.forward_moneyness = fwd
                /\ ~(p.src.option_type = Call /\ fwd > 0)
                /\ ~(p.src.option_type = Put /\ fwd < 0)

\* A returned surface with a call at the spot strike (spot moneyness 0) kept
\* because its forward moneyness is negative.
C1_Witness ==
    /\ vs_pc = "done"
    /\ \E p \in SurfacePoints :
          /\ p.src.option_type = Call
          /\ p.moneyness = 0
          /\ p.forward_moneyness < 0

C18_OnlyLiquidRecentQuotes ==
    vs_pc = "done" =>
        \A p \in SurfacePoints :
            /\ IsNum(p.src.volume) /\ p.src.volume.v >= MinVolume
            /\ p.src.last_price >= MinLastPrice
            /\ Abs(p.src.age) <= MaxAge

\* The year fractions of the chains that get a slice, in input order.
SliceMaturities ==
    SelectSeq([i \in 1..Len(vs_in.days) |-> YearFraction(vs_in.days[i])],
              LAMBDA T : T > 0)

\* C27: the returned surface has exactly one slice for each chain whose
\* year fraction is > 0, in the input order of the chains, an empty one
\* when no quote of the chain survives the filters; a chain with year
\* fraction <= 0 gives no slice; all points of a slice carry its maturity.
C27_OneSlicePerLiveChain ==
    vs_pc = "done" =>
        /\ Len(vs_slices) = Len(SliceMaturities)
        /\ \A i \in 1..Len(vs_slices) :
              /\ vs_slices[i].year_to_maturity = SliceMaturities[i]
              /\ \A j \in 1..Len(vs_slices[i].points) :
                    vs_slices[i].points[j].year_to_maturity
                        = vs_slices[i].year_to_maturity
        /\ \A i \in 1..Len(vs_in.days) :
              YearFraction(vs_in.days[i]) <= 0 =>
                  \A k \in 1..Len(vs_slices) :
                      vs_slices[k].year_to_maturity
                          # YearFraction(vs_in.days[i])

\* Two chains listed with the later expiry first: the first slice is empty
\* (no quote survived), the second holds a point.
C27_Witness ==
    /\ vs_pc = "done"
    /\ vs_in.days = <<126, 63>>
    /\ Len(vs_slices) = 2
    /\ vs_slices[1] = [year_to_maturity |-> YearFraction(126),
                       points |-> <<>>]
    /\ vs_slices[2].year_to_maturity = YearFraction(63)
    /\ Len(vs_slices[2].points) = 1

-----------------------------------------------------------------------------
(* American dividend yield: risk_factor/dividend_curve.py *)

\* compute_eu_dividend_yield: DF = exp(-r T), F = (C - P)/DF + K,
\* q = r - (1/T) log(F/spot).  1/T raises ZeroDivisionError at T = 0, log
\* raises ValueError on a non-positive argument, and a NaN price gives NaN.
compute_eu_dividend_yield(call_price, put_price, spot, strike, T, r) ==
    IF T = 0 THEN [raised |-> "ZeroDivisionError", q |-> NaN]
    ELSE IF IsNaN(call_price) \/ IsNaN(put_price)
    THEN [raised |-> "none", q |-> NaN]
    ELSE LET DF == ExpFx((-(r * T)) \div Scale)
             F  == ((call_price.v - put_price.v) * Scale) \div DF + strike
             y  == (F * Scale) \div spot
         IN  IF y <= 0 THEN [raised |-> "ValueError", q |-> NaN]
             ELSE [raised |-> "none",
                   q |-> Num(r - (LogFx(y) * Scale) \div T)]

\* abs(q_new - q) < 1e-9, false as soon as one side is NaN.  In fixed point
\* |d| / Scale < 1 / TolInv, that is |d| <= (Scale - 1) \div TolInv.
TolInv == 10^9

Converged_UnlessApart(q_new, q) ==
    ~(IsNum(q_new) /\ IsNum(q) /\ Abs(q_new.v - q.v) > (Scale - 1) \div TolInv)

Converged(q_new, q) ==
    IsNum(q_new) /\ IsNum(q) /\ Abs(q_new.v - q.v) <= (Scale - 1) \div TolInv

\* The value of a price the kernel returned: NaN when it was given a NaN,
\* else the number v the kernel computes for these arguments.
KernelValue(pr, v) ==
    IF PriceIsNaN(pr) THEN NaN
    ELSE IF pr.k = "intrinsic" THEN Num(pr.v) ELSE Num(v)

AmPass_PricesOnTree(am, eu, inp, q, o1, o2, o3) ==
    LET g   == ImpliedVolatility(eu, Call, inp.call_price, q, None, o1)
        c   == ImpliedVolatility(am, Call, inp.call_price, q, g.iv, o2)
        p   == ImpliedVolatility(c.obj, Put, inp.put_price, q, g.iv, o3)
        ec  == PriceCall(p.obj, Call, c.iv, q)
        ep  == PriceCall(ec.obj, Put, p.iv, q)
        new == compute_eu_dividend_yield(KernelValue(ec.ret, inp.eu_call),
                                         KernelValue(ep.ret, inp.eu_put),
                                         inp.spot, inp.strike, inp.T, inp.r)
    IN  [am |-> p.obj, eu |-> ep.obj, raised |-> new.raised, q_new |-> new.q,
         guess_vol |-> g.iv, iv_call |-> c.iv, iv_put |-> p.iv,
         eu_call_price |-> ec.ret, eu_put_price |-> ep.ret]

\* One pass of the "while True" body for the iterate q: the three solves
\* (oracles o1, o2, o3), the two European prices and q_new.
AmPass(am, eu, inp, q, o1, o2, o3) ==
    LET g   == ImpliedVolatility(eu, Call, inp.call_price, q, None, o1)
        c   == ImpliedVolatility(am, Call, inp.call_price, q, g.iv, o2)
        p   == ImpliedVolatility(c.obj, Put, inp.put_price, q, g.iv, o3)
        ec  == PriceCall(g.obj, Call, c.iv, q)
        ep  == PriceCall(ec.obj, Put, p.iv, q)
        new == compute_eu_dividend_yield(KernelValue(ec.ret, inp.eu_call),
                                         KernelValue(ep.ret, inp.eu_put),
                                         inp.spot, inp.strike, inp.T, inp.r)
    IN  [am |-> p.obj, eu |-> ep.obj, raised |-> new.raised, q_new |-> new.q,
         guess_vol |-> g.iv, iv_call |-> c.iv, iv_put |-> p.iv,
         eu_call_price |-> ec.ret, eu_put_price |-> ep.ret]

\* The arguments: American market prices of the ATM pair, spot, strike, T
\* and r; eu_call and eu_put are the European kernel's prices at the solved
\* vols.
AmInputs ==
    {[call_price |-> c, put_price |-> p, spot |-> 10000, strike |-> 10000,
      T |-> T, r |-> r, eu_call |-> ec, eu_put |-> ep] :
        c \in {10, 400, 600}, p \in {10, 400, 20000},
        T \in {-(Scale \div 2), Scale \div 2, Scale},
        r \in {Scale \div 50, Scale \div 20}, ec \in {380, 590},
        ep \in {400, 20000}}

\* q = compute_eu_dividend_yield(...) and the two OptionPricer.make calls.
AmInit ==
    /\ am_in \in AmInputs
    /\ LET q0 == compute_eu_dividend_yield(Num(am_in.call_price),
                     Num(am_in.put_price), am_in.spot, am_in.strike, am_in.T,
                     am_in.r)
       IN  /\ am_pc = IF q0.raised = "none" THEN "loop" ELSE "raised"
           /\ am_q = q0.q
    /\ am_qnew = Num(0)
    /\ am_am = MakePricer(American, am_in.spot, am_in.strike, am_in.r,
                          am_in.T).obj
    /\ am_eu = MakePricer(European, am_in.spot, am_in.strike, am_in.r,
                          am_in.T).obj
    /\ am_ret = Num(0)
    /\ am_it = NoPass
    /\ PrIdle /\ VsIdle /\ BsIdle /\ YcIdle /\ PlIdle
    /\ NewIdle

AmSolves(pr, option_type, market_price, q, guess) ==
    SolveCases(set_dividend_yield(pr, q), option_type, market_price,
               Bracket(guess))

\* The loop body up to q_new: three solves, two European prices, parity.
AmBody ==
    /\ am_pc = "loop"
    /\ \E o1 \in AmSolves(am_eu, Call, am_in.call_price, am_q, None) :
       \E o2 \in AmSolves(am_am, Call, am_in.call_price, am_q,
                 ImpliedVolatility(am_eu, Call, am_in.call_price, am_q, None,
                                   o1).iv) :
       \E o3 \in AmSolves(am_am, Put, am_in.put_price, am_q,
                 ImpliedVolatility(am_eu, Call, am_in.call_price, am_q, None,
                                   o1).iv) :
          \E it \in {AmPass(am_am, am_eu, am_in, am_q, o1, o2, o3)} :
              /\ it.raised = "none"
              /\ am_qnew' = it.q_new
              /\ am_am' = it.am
              /\ am_eu' = it.eu
              /\ am_it' = [made |-> TRUE, q |-> am_q,
                           guess_vol |-> it.guess_vol, iv_call |-> it.iv_call,
                           iv_put |-> it.iv_put,
                           eu_call_price |-> it.eu_call_price,
                           eu_put_price |-> it.eu_put_price]
    /\ am_pc' = "test"
    /\ UNCHANGED <<am_in, am_q, am_ret, not_am>>

\* The loop body when math.log raises on F / spot <= 0.
AmRaise ==
    /\ am_pc = "loop"
    /\ \E o1 \in AmSolves(am_eu, Call, am_in.call_price, am_q, None) :
       \E o2 \in AmSolves(am_am, Call, am_in.call_price, am_q,
                 ImpliedVolatility(am_eu, Call, am_in.call_price, am_q, None,
                                   o1).iv) :
       \E o3 \in AmSolves(am_am, Put, am_in.put_price, am_q,
                 ImpliedVolatility(am_eu, Call, am_in.call_price, am_q, None,
                                   o1).iv) :
          \E it \in {AmPass(am_am, am_eu, am_in, am_q, o1, o2, o3)} :
              /\ it.raised # "none"
              /\ am_am' = it.am
              /\ am_eu' = it.eu
    /\ am_pc' = "raised"
    /\ UNCHANGED <<am_in, am_q, am_qnew, am_ret, am_it, not_am>>

\* "if abs(q_new - q) < 1e-9: return q_new"
AmReturn ==
    /\ am_pc = "test"
    /\ Converged(am_qnew, am_q)
    /\ am_ret' = am_qnew
    /\ am_pc' = "returned"
    /\ UNCHANGED <<am_in, am_q, am_qnew, am_am, am_eu, am_it, not_am>>

\* "q = q_new" and back to the top of "while True".
AmContinue ==
    /\ am_pc = "test"
    /\ ~Converged(am_qnew, am_q)
    /\ am_q' = am_qnew
    /\ am_pc' = "loop"
    /\ UNCHANGED <<am_in, am_qnew, am_am, am_eu, am_ret, am_it, not_am>>

AmNext == AmBody \/ AmRaise \/ AmReturn \/ AmContinue

SpecDiv == AmInit /\ [][AmNext]_vars

\* The interpreter keeps running the loop: a step that can be taken is taken.
SpecDivFair == SpecDiv /\ WF_vars(AmNext)

\* The least fixed-point distance that is not below the tolerance 1e-9:
\* |d| / Scale < 1e-9 exactly when |d| < TolCeil.
TolCeil == (Scale + TolInv - 1) \div TolInv

\* The parity yield of the two European prices of a pass.
ParityOfPass(it) ==
    compute_eu_dividend_yield(KernelValue(it.eu_call_price, am_in.eu_call),
                              KernelValue(it.eu_put_price, am_in.eu_put),
                              am_in.spot, am_in.strike, am_in.T, am_in.r)

\* The price of the vol sigma under the European model at the iterate am_q.
EuropeanPrice(sigma, option_type) ==
    IF am_in.T <= 0
    THEN IntrinsicPrice(NewPricer(European, am_in.spot, am_in.strike,
                                  am_in.r, am_in.T), option_type)
    ELSE KernelPrice(European, am_in.spot, am_in.strike, am_in.r, am_q,
                     sigma, am_in.T, option_type)

\* An implied volatility solved from the guess: inside the bracket of that
\* guess, or the NaN sentinel.
SolvedFrom(iv, guess) ==
    \/ IsNaN(iv)
    \/ /\ IsNum(iv) /\ IsNum(Bracket(guess).a)
       /\ Bracket(guess).a.v <= iv.v /\ iv.v <= Bracket(guess).b.v

\* C23: compute_am_dividend_yield starts from the European parity yield of
\* the American market prices; each pass solves the American implied vols of
\* call and put under the current q, prices those vols under the European
\* model and recomputes q' by parity; it returns q' at the first pass where
\* |q' - q| < 1e-9 and otherwise goes on with q replaced by q'.
C23_FixedPointLoop ==
    /\ (am_pc = "loop" /\ ~am_it.made) =>
           am_q = compute_eu_dividend_yield(Num(am_in.call_price),
                      Num(am_in.put_price), am_in.spot, am_in.strike, am_in.T,
                      am_in.r).q
    /\ (am_pc \in {"test", "returned"}) =>
           /\ am_it.made /\ am_it.q = am_q
           /\ PricerClass(am_am) = "CoxRossRubinstein" /\ am_am.q = am_q
           /\ SolvedFrom(am_it.iv_call, am_it.guess_vol)
           /\ SolvedFrom(am_it.iv_put, am_it.guess_vol)
           /\ am_it.eu_call_price = EuropeanPrice(am_it.iv_call, Call)
           /\ am_it.eu_put_price = EuropeanPrice(am_it.iv_put, Put)
           /\ ParityOfPass(am_it).raised = "none"
           /\ am_qnew = ParityOfPass(am_it).q
    /\ am_pc = "returned" =>
           /\ am_ret = am_qnew
           /\ IsNum(am_ret) /\ IsNum(am_it.q)
           /\ Abs(am_ret.v - am_it.q.v) < TolCeil
    /\ (am_pc = "loop" /\ am_it.made) =>
           /\ am_q = ParityOfPass(am_it).q
           /\ ~(IsNum(am_q) /\ IsNum(am_it.q)
                  /\ Abs(am_q.v - am_it.q.v) < TolCeil)

\* A second pass that converged: the first pass moved q, the second did not.
C23_Witness ==
    /\ am_pc = "returned"
    /\ am_it.made
    /\ IsNum(am_it.iv_call) /\ IsNum(am_it.iv_put)
    /\ am_ret = am_it.q
    /\ am_it.q # compute_eu_dividend_yield(Num(am_in.call_price),
                      Num(am_in.put_price), am_in.spot, am_in.strike, am_in.T,
                      am_in.r).q

\* C28: whenever compute_am_dividend_yield returns, the value returned is a
\* finite number less than 1e-9 away from the previous iterate; the NaN
\* sentinel is never returned, also when a solve inside returned it.
C28_ReturnsFiniteYield ==
    am_pc = "returned" =>
        /\ IsNum(am_ret) /\ ~IsNaN(am_ret)
        /\ IsNum(am_q)
        /\ Abs(am_ret.v - am_q.v) < TolCeil

\* A return after solves that gave the sentinel: with T < 0 the prices are
\* intrinsic values, the solves find no sign change, and the parity yield
\* of the two intrinsic values repeats on the second pass.
C28_Witness ==
    /\ am_pc = "returned"
    /\ IsNaN(am_it.guess_vol) /\ IsNaN(am_it.iv_call) /\ IsNaN(am_it.iv_put)
    /\ IsNum(am_ret)
    /\ am_ret = am_q

\* C2: compute_am_dividend_yield terminates on every input: it returns, or
\* reports that it did not converge.
C2_AmTerminates == <>(am_pc \in {"returned", "raised"})

-----------------------------------------------------------------------------
(* Yield curve container: domain/market/yield_curve.py *)

YieldPoint(t, y, d) ==
    [year_to_maturity |-> t, yield_rate |-> y, evaluation_date |-> d]

\* list.sort(key=lambda p: p.year_to_maturity): a stable sort.  SortRank is
\* the place of points[i] in the result: after every point of smaller
\* maturity and after the earlier points of the same maturity.
SortRank(points, i) ==
    Cardinality({j \in DOMAIN points :
        \/ points[j].year_to_maturity < points[i].year_to_maturity
        \/ /\ points[j].year_to_maturity = points[i].year_to_maturity
           /\ j < i}) + 1

SortByMaturity(points) ==
    [k \in DOMAIN points |->
        points[CHOOSE i \in DOMAIN points : SortRank(points, i) = k]]

\* set(p.evaluation_date for p in self.points)
UniqueDates(points) == {points[i].evaluation_date : i \in DOMAIN points}

\* A date check that only rejects an empty set of dates.
MixedDates_EmptyOnly(unique_dates) == Cardinality(unique_dates) = 0

\* "if len(unique_dates) != 1"
MixedDates(unique_dates) == Cardinality(unique_dates) # 1

DateError ==
    Exc("ValueError", "All yield points must have the same evaluation date.")

PostInit_EmptyAllowed(points, yield_type, evaluation_date) ==
    LET sorted       == SortByMaturity(points)
        unique_dates == UniqueDates(sorted)
    IN  IF points = <<>>
        THEN [raised |-> NoExc,
              curve  |-> [points |-> <<>>, yield_type |-> yield_type,
                          evaluation_date |-> evaluation_date]]
        ELSE IF MixedDates(unique_dates)
        THEN [raised |-> DateError, curve |-> NoCurve]
        ELSE [raised |-> NoExc,
              curve  |-> [points |-> sorted, yield_type |-> yield_type,
                          evaluation_date |-> CHOOSE d \in unique_dates : TRUE]]

\* YieldCurve.__post_init__ on the constructor's arguments: sort, check the
\* dates, overwrite evaluation_date with the one date of the points.
PostInit(points, yield_type, evaluation_date) ==
    LET sorted       == SortByMaturity(points)
        unique_dates == UniqueDates(sorted)
    IN  IF MixedDates(unique_dates)
        THEN [raised |-> DateError, curve |-> NoCurve]
        ELSE [raised |-> NoExc,
              curve  |-> [points |-> sorted, yield_type |-> yield_type,
                          evaluation_date |-> CHOOSE d \in unique_dates : TRUE]]

MaxPoints == 3

Dates == {"d1", "d2"}

YcPoints ==
    {YieldPoint(t, y, d) : t \in {1, 2, 3}, y \in {10, 20}, d \in Dates}

SeqsUpTo(S, n) == UNION {[1..k -> S] : k \in 0..n}

YcInit ==
    /\ yc_pc = "new"
    /\ yc_in \in [points : SeqsUpTo(YcPoints, MaxPoints),
                  evaluation_date : {"none", "d2"}]
    /\ yc_ret = [raised |-> NoExc, curve |-> NoCurve]
    /\ PrIdle /\ VsIdle /\ AmIdle /\ BsIdle /\ PlIdle
    /\ NewIdle

\* YieldCurve(points, yield_type, evaluation_date)
YcConstruct ==
    /\ yc_pc = "new"
    /\ yc_ret' = PostInit(yc_in.points, "Par", yc_in.evaluation_date)
    /\ yc_pc' = IF yc_ret'.raised = NoExc THEN "built" ELSE "raised"
    /\ UNCHANGED <<yc_in, not_yc>>

YcNext == YcConstruct

SpecCurve == YcInit /\ [][YcNext]_vars

\* C8: a construction from points of more than one evaluation date raises
\* the constructor's validation error and gives no curve; a construction
\* from points that share one date gives a curve dated with that date.
C8_OneEvaluationDate ==
    yc_pc \in {"built", "raised"} =>
        LET dates == UniqueDates(yc_in.points)
        IN  /\ Cardinality(dates) > 1 =>
                  /\ yc_pc = "raised"
                  /\ yc_ret.raised = DateError
                  /\ yc_ret.curve = NoCurve
            /\ Cardinality(dates) = 1 =>
                  /\ yc_pc = "built"
                  /\ yc_ret.raised = NoExc
                  /\ yc_ret.curve.evaluation_date \in dates

\* A construction refused because two of three points differ in date.
C8_Witness ==
    /\ yc_pc = "raised"
    /\ Len(yc_in.points) = 3
    /\ Cardinality(UniqueDates(yc_in.points)) = 2

\* C9: the points of a constructed curve are in strictly ascending maturity
\* order, so no two of them have the same maturity.
C9_StrictlyAscending ==
    yc_pc = "built" =>
        \A i, j \in DOMAIN yc_ret.curve.points :
            i < j => yc_ret.curve.points[i].year_to_maturity
                        < yc_ret.curve.points[j].year_to_maturity

-----------------------------------------------------------------------------
(* Spot-curve bootstrap: risk_factor/spot_curve.py *)

\* Rates, coupons and discount factors are fixed-point numbers with Unit
\* units per 1.0; tenors are whole months (step = 0.5 is 6, max_tenor = 30
\* is 360, 1 / 12 is 1), exact for the steps used, which are binary
\* fractions of a year.
Unit == 10^4

MonthsPerYear == 12

Ln2 == 6931

\* math.exp: halving until |x| <= ln 2, then the series to x^5/120.  Below
\* exp(-12) the result is under one unit.
RECURSIVE ExpU(_)
ExpU(x) ==
    IF x < -(12 * Unit) THEN 0
    ELSE IF x < -Ln2 THEN ExpU(x + Ln2) \div 2
    ELSE IF x > Ln2 THEN 2 * ExpU(x - Ln2)
    ELSE LET x2 == (x * x) \div Unit
             x3 == (x2 * x) \div Unit
             x4 == (x3 * x) \div Unit
             x5 == (x4 * x) \div Unit
         IN  Unit + x + x2 \div 2 + x3 \div 6 + x4 \div 24 + x5 \div 120

\* math.log for y > 0: doubling or halving into (1/2, 2), then the series
\* 2 (z + z^3/3 + z^5/5) with z = |y - 1|/(y + 1), negated for y < 1.
RECURSIVE LogU(_)
LogU(y) ==
    IF 2 * y <= Unit THEN LogU(2 * y) - Ln2
    ELSE IF y >= 2 * Unit THEN LogU(y \div 2) + Ln2
    ELSE LET z  == (Abs(y - Unit) * Unit) \div (y + Unit)
             z2 == (z * z) \div Unit
             z3 == (z2 * z) \div Unit
             z5 == (z3 * z2) \div Unit
             l  == 2 * z + (2 * z3) \div 3 + (2 * z5) \div 5
         IN  IF y < Unit THEN -l ELSE l

DomainError == Exc("ValueError", "math domain error")

\* NelsonSiegel._value(dt, b0, b1, b2, tau), dt in months, tau in Unit years.
NelsonSiegel_value(dt, b0, b1, b2, tau) ==
    IF dt <= 0 THEN b0
    ELSE LET x == (dt * ((Unit * Unit) \div tau)) \div MonthsPerYear
             e == ExpU(-x)
             h == ((Unit - e) * Unit) \div x
         IN  b0 + (b1 * h) \div Unit + (b2 * (h - e)) \div Unit

\* sum(coupon * exp(-p.value * p.year_to_maturity) for p in spot_points
\*     if p.year_to_maturity < dt), over the points lo..hi of spot_points.
RECURSIVE PvCoupons(_, _, _, _, _)
PvCoupons(dt, spot_points, coupon, lo, hi) ==
    IF lo > hi THEN 0
    ELSE IF lo = hi
    THEN LET p == spot_points[lo]
         IN  IF p.year_to_maturity < dt
             THEN (coupon * ExpU((-(p.yield_rate * p.year_to_maturity))
                                     \div MonthsPerYear)) \div Unit
             ELSE 0
    ELSE LET mid == (lo + hi) \div 2
         IN  PvCoupons(dt, spot_points, coupon, lo, mid)
                 + PvCoupons(dt, spot_points, coupon, mid + 1, hi)

\* compute_spot_rate: -log((1 - pv_coupons) / (1 + coupon)) / dt.  math.log
\* raises ValueError("math domain error") on an argument <= 0.
compute_spot_rate(dt, spot_points, coupon) ==
    LET pv_coupons == PvCoupons(dt, spot_points, coupon, 1, Len(spot_points))
    IN  IF Unit + coupon = 0
        THEN [raised |-> Exc("ZeroDivisionError", "float division by zero"),
              arg |-> 0, rate |-> 0]
        ELSE LET arg == ((Unit - pv_coupons) * Unit) \div (Unit + coupon)
             IN  IF arg <= 0
                 THEN [raised |-> DomainError, arg |-> arg, rate |-> 0]
                 ELSE [raised |-> NoExc, arg |-> arg,
                       rate |-> ((-LogU(arg)) * MonthsPerYear) \div dt]

\* compute_one_month_spot_rate: (1/12, log(1 + r / 12) * 12) with r the rate
\* of par_curve.points[0].
compute_one_month_spot_rate_NoConversion(r) ==
    [raised |-> NoExc, dt |-> 1, rate |-> r]

compute_one_month_spot_rate(r) ==
    LET y == Unit + r \div MonthsPerYear
    IN  IF y <= 0
        THEN [raised |-> DomainError, dt |-> 1, rate |-> 0]
        ELSE [raised |-> NoExc, dt |-> 1, rate |-> LogU(y) * MonthsPerYear]

AppendPoint_AtFront(spot_points, point) == <<point>> \o spot_points

\* spot_points.append(point)
AppendPoint(spot_points, point) == Append(spot_points, point)

\* A loop test that stops one step early.
LoopGuard_Strict(dt, max_tenor) == dt < max_tenor

\* "while dt <= max_tenor"
LoopGuard(dt, max_tenor) == dt <= max_tenor

\* The arguments: the par curve (rate of its first point, its evaluation
\* date), max_tenor and step; the defaults are 30.0 and 0.5.
BsInputs ==
    [r0 : {0, Unit \div 20}, date : {"d1"},
     max_tenor : {MonthsPerYear \div 2, 30 * MonthsPerYear},
     step : {MonthsPerYear \div 2, MonthsPerYear}]
    \cup [r0 : {Unit \div 20}, date : {"d1"},
          max_tenor : {MonthsPerYear \div 2}, step : {1}]

\* The par curve: its points in the order the caller listed them (the
\* 1-month quote with rate r0 is not the first), and the curve
\* YieldCurve.__post_init__ made of them.
ParPoints(inp) ==
    << YieldPoint(10 * MonthsPerYear, Unit \div 25, inp.date),
       YieldPoint(1, inp.r0, inp.date),
       YieldPoint(2 * MonthsPerYear, (3 * Unit) \div 100, inp.date) >>

ParCurve(inp) == PostInit(ParPoints(inp), "Par", inp.date).curve

\* What scipy.optimize.minimize can report to NelsonSiegel._fit: success
\* with parameters inside the bounds, or failure.
FitOutcomes ==
    {[success |-> TRUE,
      x |-> [b0 |-> Unit \div 20, b1 |-> 0, b2 |-> 0, tau |-> 2 * Unit]],
     [success |-> TRUE,
      x |-> [b0 |-> Unit \div 25, b1 |-> -(Unit \div 50),
             b2 |-> Unit \div 100, tau |-> 2 * Unit]],
     [success |-> TRUE,
      x |-> [b0 |-> Unit \div 10, b1 |-> -(Unit \div 10),
             b2 |-> Unit \div 10, tau |-> 10 * Unit]],
     [success |-> FALSE,
      x |-> [b0 |-> 0, b1 |-> 0, b2 |-> 0, tau |-> Unit \div 20]]}

BsInit ==
    /\ bs_pc = "start"
    /\ bs_in \in BsInputs
    /\ bs_fit = [b0 |-> 0, b1 |-> 0, b2 |-> 0, tau |-> 0]
    /\ bs_dt = 0
    /\ bs_points = <<>>
    /\ bs_arg = Unit
    /\ bs_ret = [raised |-> NoExc, curve |-> NoCurve]
    /\ PrIdle /\ VsIdle /\ AmIdle /\ YcIdle /\ PlIdle
    /\ NewIdle

\* "fitted_par_curve = par_curve.calibrate(NelsonSiegel); dt = step".
\* NelsonSiegel._fit raises RuntimeError when the optimizer did not succeed.
BsCalibrate ==
    /\ bs_pc = "start"
    /\ \E res \in FitOutcomes :
          IF res.success
          THEN /\ bs_fit' = res.x
               /\ bs_dt' = bs_in.step
               /\ bs_pc' = "loop"
               /\ UNCHANGED bs_ret
          ELSE /\ bs_ret' = [raised |-> Exc("RuntimeError",
                                 "Nelson-Siegel optimization failed"),
                             curve |-> NoCurve]
               /\ bs_pc' = "raised"
               /\ UNCHANGED <<bs_fit, bs_dt>>
    /\ UNCHANGED <<bs_in, bs_points, bs_arg, not_bs>>

\* One pass of the loop body: the coupon of the fitted par curve at dt, the
\* spot rate, the new point, "dt += step".
BsStep ==
    /\ bs_pc = "loop"
    /\ LoopGuard(bs_dt, bs_in.max_tenor)
    /\ LET semi_annual_rate == NelsonSiegel_value(bs_dt, bs_fit.b0, bs_fit.b1,
                                                  bs_fit.b2, bs_fit.tau)
           coupon    == semi_annual_rate \div 2
           spot_rate == compute_spot_rate(bs_dt, bs_points, coupon)
       IN  /\ bs_arg' = spot_rate.arg
           /\ IF spot_rate.raised = NoExc
              THEN /\ bs_points' = AppendPoint(bs_points,
                          YieldPoint(bs_dt, spot_rate.rate, bs_in.date))
                   /\ bs_dt' = bs_dt + bs_in.step
                   /\ UNCHANGED <<bs_pc, bs_ret>>
              ELSE /\ bs_ret' = [raised |-> spot_rate.raised,
                                 curve |-> NoCurve]
                   /\ bs_pc' = "raised"
                   /\ UNCHANGED <<bs_points, bs_dt>>
    /\ UNCHANGED <<bs_in, bs_fit, not_bs>>

\* After the loop: the 1-month point is appended and the YieldCurve built.
BsFinish ==
    /\ bs_pc = "loop"
    /\ ~LoopGuard(bs_dt, bs_in.max_tenor)
    /\ LET initial == compute_one_month_spot_rate(
                          ParCurve(bs_in).points[1].yield_rate)
       IN  IF initial.raised = NoExc
           THEN /\ bs_points' = AppendPoint(bs_points,
                       YieldPoint(initial.dt, initial.rate, bs_in.date))
                /\ bs_ret' = PostInit(bs_points', "Spot", "none")
                /\ bs_pc' = IF bs_ret'.raised = NoExc THEN "done" ELSE "raised"
           ELSE /\ bs_ret' = [raised |-> initial.raised, curve |-> NoCurve]
                /\ bs_pc' = "raised"
                /\ UNCHANGED bs_points
    /\ UNCHANGED <<bs_in, bs_fit, bs_dt, bs_arg, not_bs>>

BsNext == BsCalibrate \/ BsStep \/ BsFinish

SpecBoot == BsInit /\ [][BsNext]_vars

RegularSteps == (bs_dt - bs_in.step) \div bs_in.step

ShortestParRate(inp) ==
    LET pts == ParPoints(inp)
        i   == CHOOSE i \in DOMAIN pts :
                  \A j \in DOMAIN pts :
                     pts[i].year_to_maturity <= pts[j].year_to_maturity
    IN  pts[i].yield_rate

\* The rate of the regular point k recomputed from the regular points
\* before it alone.
RateFromRegular(k) ==
    compute_spot_rate(k * bs_in.step, SubSeq(bs_points, 1, k - 1),
        NelsonSiegel_value(k * bs_in.step, bs_fit.b0, bs_fit.b1, bs_fit.b2,
                           bs_fit.tau) \div 2).rate

\* The 1-month point is appended after the last regular step only and
\* enters the coupon present value of no step; its rate is
\* 12 * ln(1 + r / 12) for the rate r of the par curve's shortest point.
OneMonthPointLast ==
    /\ bs_pc = "loop" =>
          /\ Len(bs_points) = RegularSteps
          /\ \A k \in 1..Len(bs_points) :
                bs_points[k].year_to_maturity = k * bs_in.step
    /\ bs_pc = "done" =>
          /\ Len(bs_points) = RegularSteps + 1
          /\ RegularSteps * bs_in.step <= bs_in.max_tenor
          /\ bs_in.max_tenor < (RegularSteps + 1) * bs_in.step
          /\ \A k \in 1..RegularSteps :
                /\ bs_points[k].year_to_maturity = k * bs_in.step
                /\ bs_points[k].yield_rate = RateFromRegular(k)
          /\ bs_points[RegularSteps + 1] =
                YieldPoint(1,
                    LogU(Unit + ShortestParRate(bs_in) \div MonthsPerYear)
                        * MonthsPerYear,
                    bs_in.date)

BelowEveryStepTenor ==
    bs_pc = "done" =>
        \A k \in 1..RegularSteps :
            bs_points[RegularSteps + 1].year_to_maturity
                < bs_points[k].year_to_maturity

-----------------------------------------------------------------------------
(* Piecewise-linear curve model: modeling/yield_curve.py *)

\* "earlier <= later" for one pair of zip(tenors, tenors[1:])
InOrder(earlier, later) == earlier <= later

\* all(earlier <= later for earlier, later in zip(tenors, tenors[1:]))
AllInOrder(tenors) ==
    \A i \in 1..(Len(tenors) - 1) : InOrder(tenors[i], tenors[i + 1])

LengthError ==
    Exc("ValueError", "Tenors and yields must have the same length.")

OrderError == Exc("ValueError", "Tenors must be sorted in increasing order.")

\* PiecewiseLinear.__init__(tenors, yields)
PiecewiseLinear(tenors, yields) ==
    IF Len(tenors) # Len(yields)
    THEN [raised |-> LengthError, tenors |-> <<>>, yields |-> <<>>]
    ELSE IF ~AllInOrder(tenors)
    THEN [raised |-> OrderError, tenors |-> <<>>, yields |-> <<>>]
    ELSE [raised |-> NoExc, tenors |-> tenors, yields |-> yields]

\* bisect.bisect_right(a, x): the binary search of the standard library,
\* with 0-based lo and hi; a[mid] is a[mid + 1] here.
RECURSIVE BisectRight(_, _, _, _)
BisectRight(a, x, lo, hi) ==
    IF lo < hi
    THEN LET mid == (lo + hi) \div 2
         IN  IF x < a[mid + 1] THEN BisectRight(a, x, lo, mid)
             ELSE BisectRight(a, x, mid + 1, hi)
    ELSE lo

\* PiecewiseLinear.value(dt): the first or last yield outside the tenors,
\* else y0 + weight * (y1 - y0) between tenors[i - 1] and tenors[i].
PiecewiseLinear_value(tenors, yields, dt) ==
    IF tenors = <<>>
    THEN [raised |-> Exc("IndexError", "list index out of range"), value |-> 0]
    ELSE IF dt <= tenors[1]
    THEN [raised |-> NoExc, value |-> yields[1]]
    ELSE IF dt >= tenors[Len(tenors)]
    THEN [raised |-> NoExc, value |-> yields[Len(yields)]]
    ELSE LET i  == BisectRight(tenors, dt, 0, Len(tenors))
             t0 == tenors[i]
             t1 == tenors[i + 1]
             y0 == yields[i]
             y1 == yields[i + 1]
         IN  IF t1 = t0
             THEN [raised |-> Exc("ZeroDivisionError",
                                  "float division by zero"), value |-> 0]
             ELSE LET weight == ((dt - t0) * Scale) \div (t1 - t0)
                  IN  [raised |-> NoExc,
                       value  |-> y0 + (weight * (y1 - y0)) \div Scale]

MaxTenors == 3

\* Tenors two apart, so that the times 0..8 fall before, on, between and
\* after them.
PlTenors == {2, 4, 6}

PlTimes == 0..8

PlInit ==
    /\ pl_pc = "new"
    /\ pl_in \in [tenors : SeqsUpTo(PlTenors, MaxTenors),
                  yields : SeqsUpTo({10, 20}, MaxTenors)]
    /\ pl_ret = [raised |-> NoExc, tenors |-> <<>>, yields |-> <<>>]
    /\ pl_val = NoValue
    /\ PrIdle /\ VsIdle /\ AmIdle /\ BsIdle /\ YcIdle
    /\ NewIdle

\* PiecewiseLinear(tenors, yields)
PlConstruct ==
    /\ pl_pc = "new"
    /\ pl_ret' = PiecewiseLinear(pl_in.tenors, pl_in.yields)
    /\ pl_pc' = IF pl_ret'.raised = NoExc THEN "built" ELSE "raised"
    /\ UNCHANGED <<pl_in, pl_val, not_pl>>

\* model.value(dt) on the constructed model
PlValue ==
    /\ pl_pc = "built"
    /\ \E dt \in PlTimes :
          LET v == PiecewiseLinear_value(pl_ret.tenors, pl_ret.yields, dt)
          IN  pl_val' = [called |-> TRUE, dt |-> dt, raised |-> v.raised,
                         value |-> v.value]
    /\ UNCHANGED <<pl_pc, pl_in, pl_ret, not_pl>>

PlNext == PlConstruct \/ PlValue

SpecLinear == PlInit /\ [][PlNext]_vars

\* C10: the construction raises its validation error unless the tenors are
\* strictly increasing and as many as the yields; two equal neighbouring
\* tenors are rejected.
C10_RejectsUnlessStrict ==
    (/\ pl_pc \in {"built", "raised"}
     /\ \/ \E i \in 1..(Len(pl_in.tenors) - 1) :
              pl_in.tenors[i] >= pl_in.tenors[i + 1]
        \/ Len(pl_in.tenors) # Len(pl_in.yields)) =>
        /\ pl_pc = "raised"
        /\ pl_ret.raised.type = "ValueError"

\* C11: value(t) is the first yield for t <= t_0, the last yield for
\* t >= t_n, the yield y_i at every tenor t_i, and the linear interpolation
\* of y_i and y_i+1 for t between the neighbouring tenors t_i and t_i+1.
C11_ClampAndInterpolate ==
    (pl_pc = "built" /\ pl_val.called /\ pl_in.tenors # <<>>) =>
        LET t == pl_in.tenors
            y == pl_in.yields
            n == Len(t)
        IN  /\ pl_val.raised = NoExc
            /\ pl_val.dt <= t[1] => pl_val.value = y[1]
            /\ pl_val.dt >= t[n] => pl_val.value = y[n]
            /\ \A i \in 1..n : pl_val.dt = t[i] => pl_val.value = y[i]
            /\ \A i \in 1..(n - 1) :
                  (t[i] < pl_val.dt /\ pl_val.dt < t[i + 1]) =>
                      pl_val.value = y[i]
                          + ((((pl_val.dt - t[i]) * Scale) \div (t[i + 1] - t[i]))
                                 * (y[i + 1] - y[i])) \div Scale

\* The last value call was made strictly between the first and the last
\* tenor of a list that has them.
Interior ==
    /\ pl_in.tenors # <<>>
    /\ pl_in.tenors[1] < pl_val.dt
    /\ pl_val.dt < pl_in.tenors[Len(pl_in.tenors)]

\* What value does between the ends: the index found by bisect_right has a
\* left neighbour, the two tenors bracket dt and differ, and the result is
\* the interpolation between them.
Interpolates ==
    LET t == pl_in.tenors
        y == pl_in.yields
        i == BisectRight(t, pl_val.dt, 0, Len(t))
    IN  /\ i \in 1..(Len(t) - 1)
        /\ t[i] <= pl_val.dt
        /\ pl_val.dt < t[i + 1]
        /\ t[i] < t[i + 1]
        /\ pl_val.value = y[i]
               + ((((pl_val.dt - t[i]) * Scale) \div (t[i + 1] - t[i]))
                      * (y[i + 1] - y[i])) \div Scale

\* C30: on every tenor list the constructor accepts, equal neighbouring
\* tenors included, value raises neither a division by zero nor an index
\* error, and for t strictly between the first and the last tenor it
\* interpolates between neighbouring tenors t0 <= t < t1 with t0 < t1.
C30_ValueNeverFails ==
    (pl_pc = "built" /\ pl_val.called) =>
        /\ pl_val.raised = NoExc
        /\ Interior => Interpolates

\* The same on the lists that have a first and a last tenor.
SafeWithTenors ==
    (pl_pc = "built" /\ pl_val.called /\ pl_in.tenors # <<>>) =>
        /\ pl_val.raised = NoExc
        /\ Interior => Interpolates

\* A call between the ends of a list with two equal neighbouring tenors.
InteriorWithEqualTenors ==
    /\ pl_pc = "built"
    /\ pl_val.called
    /\ Interior
    /\ \E i \in 1..(Len(pl_in.tenors) - 1) :
          pl_in.tenors[i] = pl_in.tenors[i + 1]

-----------------------------------------------------------------------------
(* Nelson-Siegel fit: modeling/yield_curve.py, domain/models/nelson_siegel.py *)

\* math.sqrt on a non-negative integer: the largest r with r * r <= n,
\* searched between lo and hi.
RECURSIVE SqrtBetween(_, _, _)
SqrtBetween(n, lo, hi) ==
    IF lo >= hi THEN lo
    ELSE LET mid == (lo + hi + 1) \div 2
         IN  IF mid * mid <= n THEN SqrtBetween(n, mid, hi)
             ELSE SqrtBetween(n, lo, mid - 1)

\* The loop of _cost: the sum of d * d over zip(tenors, empirical_values),
\* from pair i on.
RECURSIVE SumSquares(_, _, _, _)
SumSquares(tenors, empirical_values, parameters, i) ==
    IF i > Len(tenors) \/ i > Len(empirical_values) THEN 0
    ELSE LET d == empirical_values[i]
                    - NelsonSiegel_value(tenors[i], parameters.b0,
                          parameters.b1, parameters.b2, parameters.tau)
         IN  d * d + SumSquares(tenors, empirical_values, parameters, i + 1)

\* NelsonSiegel._cost: sqrt(rmse / len(empirical_values)); the squares are
\* in Unit^2, so the root is in Unit.
NelsonSiegel_cost(tenors, empirical_values, parameters) ==
    LET rmse == SumSquares(tenors, empirical_values, parameters, 1)
    IN  SqrtBetween(rmse \div Len(empirical_values), 0, Unit)

FitError == Exc("RuntimeError", "Nelson-Siegel optimization failed")

FittedModel(tenors, empirical_values, x) ==
    [made |-> TRUE, b0 |-> x.b0, b1 |-> x.b1, b2 |-> x.b2, tau |-> x.tau,
     rmse |-> NelsonSiegel_cost(tenors, empirical_values, x)]

\* NelsonSiegel._fit of modeling/yield_curve.py, result being what minimize
\* returned: "if not result.success: raise RuntimeError(...)".
NelsonSiegel_fit(tenors, empirical_values, result) ==
    IF ~result.success
    THEN [raised |-> FitError, model |-> NoModel]
    ELSE [raised |-> NoExc,
          model  |-> FittedModel(tenors, empirical_values, result.x)]

\* NelsonSiegel.fit of domain/models/nelson_siegel.py: result.success is
\* not read; the constructor computes the rmse.
NelsonSiegel_fit_domain(tenors, empirical_values, result) ==
    [raised |-> NoExc,
     model  |-> FittedModel(tenors, empirical_values, result.x)]

\* The curve fitted: three tenors in months and their yields.
NsInputs ==
    {[tenors |-> <<6, 12, 120>>, empirical_values |-> <<a, b, c>>] :
        a \in {300, 400, 500}, b \in {300, 400, 500}, c \in {300, 400, 500}}

NsInit ==
    /\ ns_pc = "new"
    /\ ns_in \in NsInputs
    /\ ns_res = [success |-> FALSE,
                 x |-> [b0 |-> 0, b1 |-> 0, b2 |-> 0, tau |-> 0]]
    /\ ns_ret = [raised |-> NoExc, model |-> NoModel]
    /\ PrIdle /\ VsIdle /\ AmIdle /\ BsIdle /\ YcIdle /\ PlIdle
    /\ ApIdle /\ DcIdle /\ KnIdle /\ LateIdle

\* NelsonSiegel.make(tenors, empirical_values) of modeling/yield_curve.py
NsFit ==
    /\ ns_pc = "new"
    /\ \E result \in FitOutcomes :
          /\ ns_res' = result
          /\ ns_ret' = NelsonSiegel_fit(ns_in.tenors, ns_in.empirical_values,
                                        result)
    /\ ns_pc' = IF ns_ret'.raised = NoExc THEN "fitted" ELSE "raised"
    /\ UNCHANGED <<ns_in, not_ns>>

\* NelsonSiegel.fit(tenors, empirical_values, initial_guess, bounds) of
\* domain/models/nelson_siegel.py
NsFitDomain ==
    /\ ns_pc = "new"
    /\ \E result \in FitOutcomes :
          /\ ns_res' = result
          /\ ns_ret' = NelsonSiegel_fit_domain(ns_in.tenors,
                           ns_in.empirical_values, result)
    /\ ns_pc' = IF ns_ret'.raised = NoExc THEN "fitted" ELSE "raised"
    /\ UNCHANGED <<ns_in, not_ns>>

NsNext == NsFit \/ NsFitDomain

SpecFit == NsInit /\ [][NsNext]_vars

\* C12: a fit whose optimizer did not converge raises the calibration error
\* and returns no model; any other fit returns the model of the optimizer's
\* parameters whose rmse is the cost at those parameters.
C12_FitFailsOrCarriesRmse ==
    ns_pc \in {"fitted", "raised"} =>
        IF ~ns_res.success
        THEN /\ ns_pc = "raised"
             /\ ns_ret.raised = FitError
             /\ ns_ret.model = NoModel
        ELSE /\ ns_pc = "fitted"
             /\ ns_ret.model.made
             /\ ns_ret.model.b0 = ns_res.x.b0
             /\ ns_ret.model.b1 = ns_res.x.b1
             /\ ns_ret.model.b2 = ns_res.x.b2
             /\ ns_ret.model.tau = ns_res.x.tau
             /\ ns_ret.model.rmse = NelsonSiegel_cost(ns_in.tenors,
                                        ns_in.empirical_values, ns_res.x)

-----------------------------------------------------------------------------
(* The closed form: BlackScholesMerton._price, modeling/option_pricer.py *)

\* math.erf at 0, 0.25, ..., 3.0, in Unit; linear in between, 1 beyond 3.
ErfTable ==
    <<0, 2763, 5205, 7112, 8427, 9229, 9661, 9867, 9953, 9985, 9996, 9999,
      10000>>

ErfStep == Unit \div 4

Erf(x) ==
    LET a == Abs(x)
        i == a \div ErfStep
        v == IF i + 1 >= Len(ErfTable) THEN Unit
             ELSE ErfTable[i + 1]
                    + ((ErfTable[i + 2] - ErfTable[i + 1]) * (a % ErfStep))
                        \div ErfStep
    IN  IF x < 0 THEN -v ELSE v

Sqrt2 == 14142

\* norm(x) = 0.5 * (1 + erf(x / sqrt(2)))
Norm(x) == (Unit + Erf((x * Unit) \div Sqrt2)) \div 2

\* F = S * exp((r - q) * T)
Forward(S, r, q, T) == (S * ExpU(((r - q) * T) \div Unit)) \div Unit

\* DF = exp(-r * T)
Discount(r, T) == ExpU((-(r * T)) \div Unit)

\* sigma * sqrt(T)
SigmaSqrtT(sigma, T) == (sigma * SqrtBetween(T * Unit, 0, 4 * Unit)) \div Unit

\* d1 = (log(S / K) + (r - q + 0.5 * sigma**2) * T) / (sigma * sqrt(T))
D1(S, K, r, q, sigma, T) ==
    ((LogU((S * Unit) \div K)
        + ((r - q + (sigma * sigma) \div (2 * Unit)) * T) \div Unit) * Unit)
      \div SigmaSqrtT(sigma, T)

\* call_price = DF * (F * norm(d1) - K * norm(d2))
CallPrice(S, K, r, q, sigma, T) ==
    LET d1 == D1(S, K, r, q, sigma, T)
        d2 == d1 - SigmaSqrtT(sigma, T)
    IN  (Discount(r, T)
            * ((Forward(S, r, q, T) * Norm(d1) - K * Norm(d2)) \div Unit))
          \div Unit

\* DF * (F - K)
ParityTerm(S, K, r, q, T) ==
    (Discount(r, T) * (Forward(S, r, q, T) - K)) \div Unit

Priced(value) == [called |-> TRUE, raised |-> NoExc, value |-> value]

KernelRaised(type, msg) ==
    [called |-> TRUE, raised |-> Exc(type, msg), value |-> 0]

BlackScholesMerton_price_TwoFormulas(S, K, r, q, sigma, T, is_call) ==
    IF K = 0 THEN KernelRaised("ZeroDivisionError", "division by zero")
    ELSE IF (S * Unit) \div K <= 0 THEN KernelRaised("ValueError",
                                                     "math domain error")
    ELSE IF SigmaSqrtT(sigma, T) = 0
    THEN KernelRaised("ZeroDivisionError", "division by zero")
    ELSE IF is_call THEN Priced(CallPrice(S, K, r, q, sigma, T))
    ELSE LET d1 == D1(S, K, r, q, sigma, T)
             d2 == d1 - SigmaSqrtT(sigma, T)
         IN  Priced((Discount(r, T)
                        * ((K * Norm(-d2) - Forward(S, r, q, T) * Norm(-d1))
                             \div Unit))
                      \div Unit)

\* BlackScholesMerton._price(S, K, r, q, sigma, T, is_call): the call price,
\* and for a put "return call_price - DF * (F - K)".  S / K, log and the
\* division by sigma * sqrt(T) raise on a zero strike, a non-positive ratio
\* and a zero volatility.
BlackScholesMerton_price(S, K, r, q, sigma, T, is_call) ==
    IF K = 0 THEN KernelRaised("ZeroDivisionError", "division by zero")
    ELSE IF (S * Unit) \div K <= 0 THEN KernelRaised("ValueError",
                                                     "math domain error")
    ELSE IF SigmaSqrtT(sigma, T) = 0
    THEN KernelRaised("ZeroDivisionError", "division by zero")
    ELSE IF is_call THEN Priced(CallPrice(S, K, r, q, sigma, T))
    ELSE Priced(CallPrice(S, K, r, q, sigma, T) - ParityTerm(S, K, r, q, T))

\* The kernel's arguments, in Unit: spot 1.0, strikes around it, T > 0.
KnInputs ==
    [S : {Unit}, K : {(9 * Unit) \div 10, Unit, (11 * Unit) \div 10},
     r : {Unit \div 50, Unit \div 20}, q : {0, (3 * Unit) \div 100},
     sigma : {0, Unit \div 5, (2 * Unit) \div 5},
     T : {Unit \div 2, Unit}]

KnInit ==
    /\ kn_in \in KnInputs
    /\ kn_call = NoResult
    /\ kn_put = NoResult
    /\ PrIdle /\ VsIdle /\ AmIdle /\ BsIdle /\ YcIdle /\ PlIdle
    /\ NsIdle /\ ApIdle /\ DcIdle /\ LateIdle

\* BlackScholesMerton._price(S, K, r, q, sigma, T, is_call=True)
KnCall ==
    /\ ~kn_call.called
    /\ kn_call' = BlackScholesMerton_price(kn_in.S, kn_in.K, kn_in.r, kn_in.q,
                                           kn_in.sigma, kn_in.T, TRUE)
    /\ UNCHANGED <<kn_in, kn_put, not_kn>>

\* BlackScholesMerton._price(S, K, r, q, sigma, T, is_call=False)
KnPut ==
    /\ ~kn_put.called
    /\ kn_put' = BlackScholesMerton_price(kn_in.S, kn_in.K, kn_in.r, kn_in.q,
                                          kn_in.sigma, kn_in.T, FALSE)
    /\ UNCHANGED <<kn_in, kn_call, not_kn>>

KnNext == KnCall \/ KnPut

SpecKernel == KnInit /\ [][KnNext]_vars

-----------------------------------------------------------------------------
(* OptionChain.atm_pair: domain/assets/option.py *)

\* An option of a chain, as far as atm_pair reads it.  An option object is
\* named by its position in chain.options.
Opt(strike, option_type) == [strike |-> strike, option_type |-> option_type]

\* strike_to_options[strike].get(option_type) after the first loop: the
\* position of the last option with that strike and type, 0 for None.  The
\* loop skips options with strike <= 0.
StrikeToOptions(options, strike, option_type) ==
    LET at == {i \in 1..Len(options) :
                  /\ options[i].strike > 0
                  /\ options[i].strike = strike
                  /\ options[i].option_type = option_type}
    IN  IF at = {} THEN 0 ELSE CHOOSE i \in at : \A j \in at : j <= i

\* The keys of strike_to_options come in the order of their first insertion:
\* position i opens a key when no earlier option has its strike.
OpensKey(options, i) ==
    /\ options[i].strike > 0
    /\ \A j \in 1..(i - 1) : options[j].strike # options[i].strike

\* abs(log(spot / strike)); log raises ValueError on a ratio that is not
\* positive.
Moneyness(spot, strike) ==
    LET ratio == (spot * Unit) \div strike
    IN  IF ratio <= 0 THEN [raised |-> TRUE, abs |-> 0]
        ELSE [raised |-> FALSE, abs |-> Abs(LogU(ratio))]

NoPair == [found |-> FALSE, strike |-> 0, call |-> 0, put |-> 0, closest |-> 0]

RECURSIVE AtmLoop_FirstPair(_, _, _, _)
AtmLoop_FirstPair(options, spot, i, best) ==
    IF i > Len(options) THEN best
    ELSE IF ~OpensKey(options, i)
    THEN AtmLoop_FirstPair(options, spot, i + 1, best)
    ELSE LET strike == options[i].strike
             call == StrikeToOptions(options, strike, Call)
             put == StrikeToOptions(options, strike, Put)
             m == Moneyness(spot, strike)
         IN  IF call # 0 /\ put # 0 /\ ~m.raised /\ ~best.found
             THEN AtmLoop_FirstPair(options, spot, i + 1,
                      [found |-> TRUE, strike |-> strike, call |-> call,
                       put |-> put, closest |-> m.abs])
             ELSE AtmLoop_FirstPair(options, spot, i + 1, best)

\* The second loop of atm_pair, from key position i on: best_pair and
\* closest_moneyness (infinite while no pair is found).
RECURSIVE AtmLoop(_, _, _, _)
AtmLoop(options, spot, i, best) ==
    IF i > Len(options) THEN best
    ELSE IF ~OpensKey(options, i) THEN AtmLoop(options, spot, i + 1, best)
    ELSE LET strike == options[i].strike
             call == StrikeToOptions(options, strike, Call)
             put == StrikeToOptions(options, strike, Put)
             m == Moneyness(spot, strike)
         IN  IF call # 0 /\ put # 0 /\ ~m.raised
                  /\ (~best.found \/ m.abs < best.closest)
             THEN AtmLoop(options, spot, i + 1,
                      [found |-> TRUE, strike |-> strike, call |-> call,
                       put |-> put, closest |-> m.abs])
             ELSE AtmLoop(options, spot, i + 1, best)

\* OptionChain.atm_pair for a chain with these options whose underlying
\* closed at spot.
atm_pair(options, spot) ==
    IF spot <= 0 THEN NoPair ELSE AtmLoop(options, spot, 1, NoPair)

MaxOptions == 4

ApStrikes == {0, 90, 111}

ApSpots == {-100, 0, 100}

ApOptions == {Opt(k, t) : k \in ApStrikes, t \in OptionTypes}

ApInit ==
    /\ ap_pc = "new"
    /\ ap_in \in [spot : ApSpots, options : SeqsUpTo(ApOptions, MaxOptions)]
    /\ ap_ret = NoPair
    /\ PrIdle /\ VsIdle /\ AmIdle /\ BsIdle /\ YcIdle /\ PlIdle
    /\ NsIdle /\ DcIdle /\ KnIdle /\ LateIdle

\* chain.atm_pair()
ApAtmPair ==
    /\ ap_pc = "new"
    /\ ap_ret' = atm_pair(ap_in.options, ap_in.spot)
    /\ ap_pc' = "returned"
    /\ UNCHANGED <<ap_in, not_ap>>

ApNext == ApAtmPair

SpecAtm == ApInit /\ [][ApNext]_vars

\* The strikes > 0 of a chain that carry both a call and a put.
PairedStrikes(options) ==
    {k \in {options[i].strike : i \in 1..Len(options)} :
        /\ k > 0
        /\ \E i \in 1..Len(options) :
              options[i].strike = k /\ options[i].option_type = Call
        /\ \E i \in 1..Len(options) :
              options[i].strike = k /\ options[i].option_type = Put}

\* C19: atm_pair returns no pair when the spot is <= 0 or no strike > 0
\* carries both a call and a put; otherwise it returns (strike, call, put)
\* with call a Call and put a Put of the chain at that strike, strike > 0,
\* and |ln(spot / strike)| minimal among the strikes > 0 carrying both.
C19_AtmPairIsClosest ==
    ap_pc = "returned" =>
        LET options == ap_in.options
            spot == ap_in.spot
        IN  IF spot <= 0 \/ PairedStrikes(options) = {}
            THEN ~ap_ret.found
            ELSE /\ ap_ret.found
                 /\ ap_ret.strike > 0
                 /\ ap_ret.call \in 1..Len(options)
                 /\ ap_ret.put \in 1..Len(options)
                 /\ options[ap_ret.call] = Opt(ap_ret.strike, Call)
                 /\ options[ap_ret.put] = Opt(ap_ret.strike, Put)
                 /\ \A k \in PairedStrikes(options) :
                       Abs(LogU((spot * Unit) \div ap_ret.strike))
                           <= Abs(LogU((spot * Unit) \div k))

C19_Witness ==
    /\ ap_pc = "returned"
    /\ ap_in.spot = 100
    /\ ap_in.options = <<Opt(90, Call), Opt(90, Put), Opt(111, Put),
                         Opt(111, Call)>>
    /\ ap_ret.found
    /\ ap_ret.strike = 111
    /\ ap_ret.call = 4
    /\ ap_ret.put = 3

-----------------------------------------------------------------------------
(* Dividend curve: build_dividend_curve, risk_factor/dividend_curve.py *)

\* An option of a chain with its last price, in Scale.
Quoted(strike, option_type, last_price) ==
    [strike |-> strike, option_type |-> option_type,
     last_price |-> last_price]

\* A chain: its expiry as the number of days after as_of, and its options.
Chain(days, options) == [days |-> days, options |-> options]

\* "if min(abs(call_price), abs(put_price)) < 1e-3: continue"
MinPrice == Scale \div 1000

SmallPrice(call_price, put_price) ==
    Min(Abs(call_price), Abs(put_price)) < MinPrice

\* interpolated_spot_curve: the piecewise-linear spot curve, flat at 2%.
DcSpotCurve ==
    [tenors |-> <<Scale \div 10, Scale>>,
     yields |-> <<Scale \div 50, Scale \div 50>>]

\* What a compute_am_dividend_yield call does: it returns a yield, raises
\* out of math.log, or stays in its "while True" loop.
AmOutcomes ==
    {[how |-> "returned", q |-> Num(20)], [how |-> "returned", q |-> Num(35)],
     [how |-> "raised", q |-> NaN], [how |-> "looping", q |-> NaN]}

UseFixedPoint_Always(style) == TRUE

\* "if option_chains.exercice_style == ExcerciceStyle.American"
UseFixedPoint(style) == style = American

NoEntry ==
    [outcome |-> "none", T |-> 0, closed_form |-> 0, fixed_point |-> 0,
     q |-> NaN, raised |-> "none"]

\* One pass of the "for chain in option_chains.chains" body: the outcome for
\* the chain ("short", "no_pair", "small_price", "point", "raised",
\* "looping"), the yield computed, and how many calls of
\* compute_eu_dividend_yield and of compute_am_dividend_yield the body made.
\* am is what the compute_am_dividend_yield call does if it is made.
ChainBody(chain, style, spot, min_year_fraction, am) ==
    LET T    == YearFraction(chain.days)
        pair == atm_pair(chain.options, spot)
    IN  IF T < min_year_fraction
        THEN [NoEntry EXCEPT !.outcome = "short", !.T = T]
        ELSE IF ~pair.found
        THEN [NoEntry EXCEPT !.outcome = "no_pair", !.T = T]
        ELSE LET call_price == chain.options[pair.call].last_price
                 put_price  == chain.options[pair.put].last_price
                 r == PiecewiseLinear_value(DcSpotCurve.tenors,
                                            DcSpotCurve.yields, T).value
             IN  IF SmallPrice(call_price, put_price)
                 THEN [NoEntry EXCEPT !.outcome = "small_price", !.T = T]
                 ELSE IF UseFixedPoint(style)
                 THEN [outcome |-> IF am.how = "returned" THEN "point"
                                   ELSE am.how,
                       T |-> T, closed_form |-> 0, fixed_point |-> 1,
                       q |-> am.q,
                       raised |-> IF am.how = "raised" THEN "ValueError"
                                  ELSE "none"]
                 ELSE LET eu == compute_eu_dividend_yield(Num(call_price),
                                    Num(put_price), spot, pair.strike, T, r)
                      IN  [outcome |-> IF eu.raised = "none" THEN "point"
                                       ELSE "raised",
                           T |-> T, closed_form |-> 1, fixed_point |-> 0,
                           q |-> eu.q, raised |-> eu.raised]

MaxChains == 2

AsOf == "d1"

DcDays == {12, 126, 252}

\* The options of a chain: none, a call alone, an ATM pair at 4.00 and 3.80,
\* at 0.01 and 0.01, at 0.001 and 0.001, and with a call that last traded
\* at 0.
DcOptionLists ==
    {<<>>,
     <<Quoted(10000, Call, 400)>>,
     <<Quoted(10000, Call, 400), Quoted(10000, Put, 380)>>,
     <<Quoted(10000, Call, 10), Quoted(10000, Put, 10)>>,
     <<Quoted(10000, Call, MinPrice), Quoted(10000, Put, MinPrice)>>,
     <<Quoted(10000, Call, 0), Quoted(10000, Put, 380)>>}

DcChains == {Chain(days, options) : days \in DcDays, options \in DcOptionLists}

DcInit ==
    /\ dc_pc = "chains"
    /\ dc_in \in [style : {European, American}, spot : {10000},
                  chains : SeqsUpTo(DcChains, MaxChains),
                  min_year_fraction : {Scale \div 10, Scale \div 2}]
    /\ dc_ci = 0
    /\ dc_points = <<>>
    /\ dc_log = <<>>
    /\ dc_ret = [raised |-> NoExc, curve |-> NoCurve]
    /\ PrIdle /\ VsIdle /\ AmIdle /\ BsIdle /\ YcIdle /\ PlIdle
    /\ NsIdle /\ ApIdle /\ KnIdle /\ LateIdle

\* One chain of "for chain in option_chains.chains".
DcChain ==
    /\ dc_pc = "chains"
    /\ dc_ci < Len(dc_in.chains)
    /\ \E am \in AmOutcomes :
          LET e == ChainBody(dc_in.chains[dc_ci + 1], dc_in.style, dc_in.spot,
                             dc_in.min_year_fraction, am)
          IN  /\ dc_log' = Append(dc_log, e)
              /\ dc_points' = IF e.outcome = "point"
                              THEN Append(dc_points,
                                          YieldPoint(e.T, e.q.v, AsOf))
                              ELSE dc_points
              /\ dc_pc' = IF e.outcome \in {"raised", "looping"}
                          THEN e.outcome ELSE "chains"
              /\ dc_ret' = IF e.outcome = "raised"
                           THEN [raised |-> Exc(e.raised, "math domain error"),
                                 curve |-> NoCurve]
                           ELSE dc_ret
    /\ dc_ci' = dc_ci + 1
    /\ UNCHANGED <<dc_in, not_dc>>

\* "return YieldCurve(points, YieldCurveType.Dividend, as_of)"
DcReturn ==
    /\ dc_pc = "chains"
    /\ dc_ci = Len(dc_in.chains)
    /\ dc_ret' = PostInit(dc_points, "Dividend", AsOf)
    /\ dc_pc' = IF dc_ret'.raised = NoExc THEN "done" ELSE "raised"
    /\ UNCHANGED <<dc_in, dc_ci, dc_points, dc_log, not_dc>>

DcNext == DcChain \/ DcReturn

SpecDividendCurve == DcInit /\ [][DcNext]_vars

\* The three conditions on a chain: year fraction at least the minimum, an
\* ATM pair, both prices of the pair at least 1e-3.
Qualifies(chain, spot, min_year_fraction) ==
    /\ YearFraction(chain.days) >= min_year_fraction
    /\ LET pair == atm_pair(chain.options, spot)
       IN  /\ pair.found
           /\ chain.options[pair.call].last_price >= MinPrice
           /\ chain.options[pair.put].last_price >= MinPrice

C17_OnePointPerQualifyingChain ==
    LET taken == {i \in 1..dc_ci :
                     Qualifies(dc_in.chains[i], dc_in.spot,
                               dc_in.min_year_fraction)}
    IN  /\ Len(dc_points) = Cardinality(taken)
        /\ \A i \in taken :
              LET n == Cardinality({j \in taken : j <= i})
              IN  dc_points[n].year_to_maturity
                     = YearFraction(dc_in.chains[i].days)

-----------------------------------------------------------------------------
(* The binomial tree: CoxRossRubinstein._price, modeling/option_pricer.py *)

\* Exact arithmetic on rationals, so that a node value is compared with the
\* value the recursion defines and not with a rounding of it.
RECURSIVE Gcd(_, _)
Gcd(a, b) == IF b = 0 THEN a ELSE Gcd(b, a % b)

RNorm(n, d) ==
    LET g == Gcd(Abs(n), Abs(d))
    IN  IF d < 0 THEN Rat((-n) \div g, (-d) \div g) ELSE Rat(n \div g, d \div g)

RInt(n) == Rat(n, 1)

RAdd(x, y) ==
    LET l == (x.d \div Gcd(x.d, y.d)) * y.d
    IN  RNorm(x.n * (l \div x.d) + y.n * (l \div y.d), l)

RNeg(x) == Rat(-x.n, x.d)

RSub(x, y) == RAdd(x, RNeg(y))

RMul(x, y) == RNorm(x.n * y.n, x.d * y.d)

RDiv(x, y) == RNorm(x.n * y.d, x.d * y.n)

RLess(x, y) == x.n * y.d < y.n * x.d

\* max(a, b) of Python: b only when b > a.
RMax(a, b) == IF RLess(a, b) THEN b ELSE a

RECURSIVE RPow(_, _)
RPow(x, k) == IF k = 0 THEN RInt(1) ELSE RMul(x, RPow(x, k - 1))

\* N, the number of steps of the tree (1000 in the code).
TreeSteps == 2

\* "max(ST[j] - K, 0.0) if is_call else max(K - ST[j], 0.0)"
Exercise(spot, K, is_call) ==
    IF is_call THEN RMax(RSub(spot, RInt(K)), RInt(0))
    ELSE RMax(RSub(RInt(K), spot), RInt(0))

\* d = 1 / u and p = (exp((r - q) * dt) - d) / (u - d)
Down(u) == RDiv(RInt(1), u)

RiskNeutral(inp) ==
    RDiv(RSub(inp.growth, Down(inp.u)), RSub(inp.u, Down(inp.u)))

\* "ST[j] = S * u ** (N - j) * d**j" for j in range(N + 1)
Leaves(inp) ==
    [j1 \in 1..(TreeSteps + 1) |->
        RMul(RMul(RInt(inp.S), RPow(inp.u, TreeSteps - (j1 - 1))),
             RPow(Down(inp.u), j1 - 1))]

NodeSpot_Kept(st, u) == st

\* "ST[j] = ST[j] / u"
NodeSpot(st, u) == RDiv(st, u)

\* "cont_val = df * (p * payoff[j] + (1 - p) * payoff[j + 1])"
Continuation(inp, up, down) ==
    LET p == RiskNeutral(inp)
    IN  RMul(inp.df, RAdd(RMul(p, up), RMul(RSub(RInt(1), p), down)))

\* The arguments.  u = exp(sigma * sqrt(dt)) is 2 or 3/2 for two positive
\* volatilities, 1/2 for a negative one and 1 for sigma = 0; growth is
\* exp((r - q) * dt) and df is exp(-r * dt).
TrInputs ==
    [S : {96}, K : {60, 96, 150}, is_call : BOOLEAN,
     u : {Rat(2, 1), Rat(3, 2), Rat(1, 2), Rat(1, 1)},
     growth : {Rat(1, 1), Rat(5, 4), Rat(3, 4)},
     df : {Rat(1, 1), Rat(1, 2)}]

TrInit ==
    /\ tr_pc = "start"
    /\ tr_in \in TrInputs
    /\ tr_ST = <<>>
    /\ tr_payoff = <<>>
    /\ tr_i = 0
    /\ tr_j = 0
    /\ tr_ret = [raised |-> NoExc, value |-> Rat(0, 1)]
    /\ PrIdle /\ VsIdle /\ AmIdle /\ BsIdle /\ YcIdle /\ PlIdle
    /\ NsIdle /\ ApIdle /\ DcIdle /\ KnIdle /\ UnIdle

\* Lines 226-240: the parameters, the terminal spots and payoffs.  With
\* u = d the division by u - d raises.
TrLeaves ==
    /\ tr_pc = "start"
    /\ IF RSub(tr_in.u, Down(tr_in.u)) = RInt(0)
       THEN /\ tr_pc' = "raised"
            /\ tr_ret' = [raised |-> Exc("ZeroDivisionError",
                                         "division by zero"),
                          value |-> Rat(0, 1)]
            /\ UNCHANGED <<tr_ST, tr_payoff, tr_i, tr_j>>
       ELSE /\ tr_ST' = Leaves(tr_in)
            /\ tr_payoff' = [j1 \in 1..(TreeSteps + 1) |->
                               Exercise(Leaves(tr_in)[j1], tr_in.K,
                                        tr_in.is_call)]
            /\ tr_i' = TreeSteps - 1
            /\ tr_j' = 0
            /\ tr_pc' = IF TreeSteps - 1 >= 0 THEN "nodes" ELSE "end"
            /\ UNCHANGED tr_ret
    /\ UNCHANGED <<tr_in, not_tr>>

\* Lines 242-247: the body of the two loops for the node (i, j), then the
\* next j, or the next level, or the end of the loops.
TrNode ==
    /\ tr_pc = "nodes"
    /\ LET spot == NodeSpot(tr_ST[tr_j + 1], tr_in.u)
           cont_val == Continuation(tr_in, tr_payoff[tr_j + 1],
                                    tr_payoff[tr_j + 2])
           exercise_val == Exercise(spot, tr_in.K, tr_in.is_call)
       IN  /\ tr_ST' = [tr_ST EXCEPT ![tr_j + 1] = spot]
           /\ tr_payoff' = [tr_payoff EXCEPT
                               ![tr_j + 1] = RMax(cont_val, exercise_val)]
    /\ IF tr_j < tr_i
       THEN tr_j' = tr_j + 1 /\ UNCHANGED <<tr_i, tr_pc>>
       ELSE /\ tr_j' = 0
            /\ tr_i' = tr_i - 1
            /\ tr_pc' = IF tr_i - 1 >= 0 THEN "nodes" ELSE "end"
    /\ UNCHANGED <<tr_in, tr_ret, not_tr>>

\* "return payoff[0]"
TrReturn ==
    /\ tr_pc = "end"
    /\ tr_ret' = [raised |-> NoExc, value |-> tr_payoff[1]]
    /\ tr_pc' = "returned"
    /\ UNCHANGED <<tr_in, tr_ST, tr_payoff, tr_i, tr_j, not_tr>>

TrNext == TrLeaves \/ TrNode \/ TrReturn

SpecTree == TrInit /\ [][TrNext]_vars

\* The spot of the node (i, j): S * u^(i-j) * d^j.
SpotAt(inp, i, j) ==
    RMul(RMul(RInt(inp.S), RPow(inp.u, i - j)), RPow(Down(inp.u), j))

\* The value of the node (i, j) by the recursion of the American tree: the
\* payoff at a leaf, else the larger of the discounted continuation value
\* and the immediate-exercise value at the node's spot.
RECURSIVE NodeValue(_, _, _)
NodeValue(inp, i, j) ==
    IF i = TreeSteps THEN Exercise(SpotAt(inp, i, j), inp.K, inp.is_call)
    ELSE RMax(Continuation(inp, NodeValue(inp, i + 1, j),
                           NodeValue(inp, i + 1, j + 1)),
              Exercise(SpotAt(inp, i, j), inp.K, inp.is_call))

\* C24: in the backward induction, at every node (level i from N-1 down to
\* 0, index j <= i) the spot used for the immediate-exercise value is
\* S * u^(i-j) * d^j and the node value is the maximum of the discounted
\* continuation value and the immediate-exercise value; the root price
\* returned is therefore never below the intrinsic value at S.
C24_NodeIsMaxOfContinuationAndExercise ==
    /\ tr_pc \in {"nodes", "end", "returned"} =>
          /\ \A j \in 0..(tr_j - 1) :
                /\ tr_ST[j + 1] = SpotAt(tr_in, tr_i, j)
                /\ tr_payoff[j + 1] = NodeValue(tr_in, tr_i, j)
          /\ \A j \in tr_j..(tr_i + 1) :
                tr_payoff[j + 1] = NodeValue(tr_in, tr_i + 1, j)
    /\ tr_pc = "returned" =>
          /\ tr_ret.value = NodeValue(tr_in, 0, 0)
          /\ ~RLess(tr_ret.value,
                    RInt(Intrinsic(tr_in.S, tr_in.K,
                                   IF tr_in.is_call THEN Call ELSE Put)))

\* A put deep in the money whose root is exercised at once: the price is
\* the intrinsic value, above the discounted continuation value.
C24_Witness ==
    /\ tr_pc = "returned"
    /\ ~tr_in.is_call /\ tr_in.K = 150 /\ tr_in.df = Rat(1, 2)
    /\ tr_ret.value = RInt(150 - 96)
    /\ RLess(Continuation(tr_in, NodeValue(tr_in, 1, 0),
                          NodeValue(tr_in, 1, 1)),
             tr_ret.value)

-----------------------------------------------------------------------------
(* Two units of work side by side: the per-option work of                  *)
(* compute_volatility_surface and the per-expiry work of                   *)
(* build_dividend_curve, risk_factor/volatility_surface.py and             *)
(* risk_factor/dividend_curve.py                                           *)

\* One statement of a unit: "read" is curve.value(T), "make" is
\* OptionPricer.make into the local slot, "setq" and "setsigma" are the two
\* setters, "price" is price(option_type, sigma, q) on the pricer of the slot.
Stmt(op, slot, style, option_type, sigma, q) ==
    [op |-> op, slot |-> slot, style |-> style, option_type |-> option_type,
     sigma |-> sigma, q |-> q]

\* implied_volatility(option_type, market_price, q, guess) as the statements
\* it runs on the pricer: set_dividend_yield(q), then f at both ends of the
\* bracket, each f being set_volatility(sigma) followed by price(option_type).
\* The root brentq returns is a function of the prices f saw.
SolveStmts(slot, option_type, q, guess) ==
    LET br == Bracket(guess)
    IN  << Stmt("setq", slot, "none", option_type, None, q),
           Stmt("setsigma", slot, "none", option_type, br.a, None),
           Stmt("price", slot, "none", option_type, None, None),
           Stmt("setsigma", slot, "none", option_type, br.b, None),
           Stmt("price", slot, "none", option_type, None, None) >>

\* volatility_surface.py lines 61-62 for one option of a chain.
OptionUnit(u) ==
    << Stmt("make", "pricer", u.style, u.option_type, None, None) >>
    \o SolveStmts("pricer", u.option_type, u.q, None)

\* dividend_curve.py line 77 and one pass of compute_am_dividend_yield
\* (lines 25-36): the two pricers, the European solve, the American solve
\* from its result, and the European price at the American vol.
ExpiryUnit(u) ==
    << Stmt("read", "none", "none", Call, None, None),
       Stmt("make", "am_pricer", American, Call, None, None),
       Stmt("make", "eu_pricer", European, Call, None, None) >>
    \o SolveStmts("eu_pricer", Call, u.q, None)
    \o SolveStmts("am_pricer", Call, u.q, u.guess_vol)
    \o << Stmt("price", "eu_pricer", "none", Call, u.iv_call, u.q) >>

Program(u) == IF u.kind = "option" THEN OptionUnit(u) ELSE ExpiryUnit(u)

Allocate_OnePricer(heap, obj) ==
    IF heap = <<>> THEN [heap |-> <<obj>>, ref |-> 1]
    ELSE [heap |-> [heap EXCEPT ![1] = obj], ref |-> 1]

\* A constructor call: a new object, known to the caller only.
Allocate(heap, obj) == [heap |-> Append(heap, obj), ref |-> Len(heap) + 1]

NoLocals(u) ==
    [refs |-> [slot \in {"pricer", "am_pricer", "eu_pricer"} |-> 0],
     r |-> u.r, seen |-> <<>>]

\* The effect of one statement of the unit u on the heap and on its locals.
Exec(st, u, heap, loc, curve) ==
    LET ref == loc.refs[st.slot]
    IN  CASE st.op = "read" ->
               [heap |-> heap, loc |-> [loc EXCEPT !.r = curve[u.T]]]
          [] st.op = "make" ->
               LET a == Allocate(heap, MakePricer(st.style, u.S, u.K, loc.r,
                                                  u.T).obj)
               IN  [heap |-> a.heap,
                    loc |-> [loc EXCEPT !.refs[st.slot] = a.ref]]
          [] st.op = "setq" ->
               [heap |-> [heap EXCEPT ![ref] = set_dividend_yield(@, st.q)],
                loc |-> loc]
          [] st.op = "setsigma" ->
               [heap |-> [heap EXCEPT ![ref] = set_volatility(@, st.sigma)],
                loc |-> loc]
          [] st.op = "price" ->
               LET c == PriceCall(heap[ref], st.option_type, st.sigma, st.q)
               IN  [heap |-> [heap EXCEPT ![ref] = c.obj],
                    loc |-> [loc EXCEPT !.seen = Append(@, c.ret)]]

\* The unit run on its own from its statement k on.
RECURSIVE RunAlone(_, _, _, _, _)
RunAlone(u, k, heap, loc, curve) ==
    IF k > Len(Program(u)) THEN loc
    ELSE LET e == Exec(Program(u)[k], u, heap, loc, curve)
         IN  RunAlone(u, k + 1, e.heap, e.loc, curve)

\* The fitted spot curve: r at the two maturities.
UnMaturities == {Scale \div 2, Scale}

UnCurve == [T \in UnMaturities |-> IF T = Scale THEN Scale \div 20
                                   ELSE Scale \div 50]

UnUnits ==
    [kind : {"option", "expiry"}, style : {European, American},
     option_type : {Put}, S : {100}, K : Strikes, T : UnMaturities,
     r : {Scale \div 50}, q : {Num((3 * Scale) \div 100)},
     guess_vol : {Num(Scale \div 5)}, iv_call : {Num(Scale \div 4)}]

UnInit ==
    /\ un_in \in {<<a, b>> : a \in {u \in UnUnits : u.K = 90},
                            b \in {u \in UnUnits : u.K = 110 /\ u.T = Scale
                                                    /\ u.style = American}}
    /\ un_pc = <<1, 1>>
    /\ un_heap = <<>>
    /\ un_loc = <<NoLocals(un_in[1]), NoLocals(un_in[2])>>
    /\ un_curve = UnCurve
    /\ PrIdle /\ VsIdle /\ AmIdle /\ BsIdle /\ YcIdle /\ PlIdle
    /\ NsIdle /\ ApIdle /\ DcIdle /\ KnIdle /\ TrIdle

\* The next statement of one of the two units, in any order.
UnStep ==
    \E i \in {1, 2} :
       /\ un_pc[i] <= Len(Program(un_in[i]))
       /\ LET e == Exec(Program(un_in[i])[un_pc[i]], un_in[i], un_heap,
                        un_loc[i], un_curve)
          IN  /\ un_heap' = e.heap
              /\ un_loc' = [un_loc EXCEPT ![i] = e.loc]
       /\ un_pc' = [un_pc EXCEPT ![i] = @ + 1]
       /\ UNCHANGED <<un_in, un_curve, not_un>>

UnNext == UnStep

SpecUnits == UnInit /\ [][UnNext]_vars

UnDone(i) == un_pc[i] > Len(Program(un_in[i]))

====
